---- MODULE Spec2Model ----
(***************************************************************************)
(* A model of the task_manager application: the persistent store           *)
(* (database.py), the task graph handlers of the Task Manager and Today    *)
(* tabs, the task details dialog, and the automation engine of main.py.    *)
(*                                                                         *)
(* Identifiers are uuid4 strings in the program; here each table has a     *)
(* counter and an identifier is never used twice.  NULL stands for SQL     *)
(* NULL / Python None.  Dates are day numbers, day 1 being a Monday.       *)
(***************************************************************************)
EXTENDS Integers, FiniteSets, Sequences, TLC

\* ---- bounds of the model ------------------------------------------------
MaxTasks == 3
MaxEvents == 3
MaxRules == 2
MaxCalEvents == 3
MaxDate == 2
MaxDeps == 3
MaxShowDates == 2
MaxRecurTasks == 2
MaxAutoRules == 1
MaxToday == 33
MaxFail == 10
MaxTemplates == 2
MaxTemplateRows == 3

NULL == 0

Dates == 1..MaxDate
Descs == {"a", "b"}

VARIABLES
    tasks,            \* table tasks: id -> row
    task_uuid,        \* number of task ids handed out so far
    show_dates,       \* table task_show_dates: set of <<task_id, show_date>>
    completion_log,   \* table task_completion_log: set of <<task_id, date>>
    dependencies,     \* dependency edges: set of <<task_id, depends_on_task_id>>
    schedule_events,  \* table schedule_events: id -> row
    event_uuid,       \* number of schedule event ids handed out so far
    automations,      \* tables automations + automation_actions: id -> rule
    rule_uuid,        \* number of rule ids handed out so far
    calendar_events,  \* table calendar_events: id -> row
    cal_uuid,         \* number of calendar event ids handed out so far
    today,            \* the current date (datetime.now())
    app_state,        \* table app_state: key -> value
    templates,        \* task templates and their rows: id -> template
    template_uuid,    \* number of template ids handed out so far
    now_time,         \* the time of day (datetime.now().time()), in ticks
    current_app_date, \* MainWindow.current_app_date
    notified_event_windows, \* MainWindow.notified_event_windows: id -> set
    notifications,    \* notifications shown: <<app date, event, window>> -> count
    check_stack,      \* calls of the notification check waiting in a message box
    pomodoro_running, \* PomodoroTimerWidget.pomodoro_running
    timer_mode,       \* "Work" or "Break"
    timer_seconds,    \* seconds left
    total_timer_seconds,
    pomodoro_cycles,  \* completed Work sessions
    break_cycles,     \* completed breaks
    work_minutes,     \* the settings as loaded by _load_settings_from_db
    short_break_minutes,
    long_break_minutes,
    sessions_before_long_break,
    last              \* what the last handler did and reported

taskVars == <<tasks, task_uuid, show_dates, completion_log, dependencies>>
schedVars == <<schedule_events, event_uuid>>
autoVars == <<automations, rule_uuid>>
calVars == <<calendar_events, cal_uuid>>
tmplVars == <<templates, template_uuid>>
notifyVars == <<now_time, current_app_date, notified_event_windows, notifications, check_stack>>
timerVars == <<pomodoro_running, timer_mode, timer_seconds, total_timer_seconds, pomodoro_cycles, break_cycles>>
settingVars == <<work_minutes, short_break_minutes, long_break_minutes, sessions_before_long_break>>
pomoVars == <<timerVars, settingVars>>
vars == <<tasks, task_uuid, show_dates, completion_log, dependencies,
          schedule_events, event_uuid, automations, rule_uuid,
          calendar_events, cal_uuid, today, app_state, templates,
          template_uuid, now_time, current_app_date, notified_event_windows,
          notifications, check_stack, pomodoro_running, timer_mode,
          timer_seconds, total_timer_seconds, pomodoro_cycles, break_cycles,
          work_minutes, short_break_minutes, long_break_minutes,
          sessions_before_long_break, last>>

\* The report of a handler: which one ran, on what, and what it answered.
NoLast ==
    [op |-> "init", task |-> NULL, date |-> NULL, checked |-> FALSE,
     recurring |-> FALSE, outcome |-> "none", title |-> <<>>, rule |-> NULL,
     ret |-> FALSE, created_task_ids |-> <<>>, created_event_ids |-> <<>>,
     new_task_ids |-> {}, repeat |-> FALSE, gone |-> {}, dropped |-> <<0, 0, 0>>,
     events |-> {}, marker |-> <<>>, failed |-> FALSE, event |-> NULL,
     unlinked |-> {}, template |-> NULL, prompt |-> FALSE]

\* ---- the store: tasks ---------------------------------------------------

\* A row of table tasks as add_task inserts it.
NewTaskRow(description, date_added, deadline, priority, category, created_by_automation_id, show_mode, parent_task_id) ==
    [description |-> description, status |-> "pending",
     date_added |-> date_added, deadline |-> deadline,
     priority |-> priority, category |-> category,
     date_completed |-> NULL, schedule_event_id |-> NULL,
     created_by_automation_id |-> created_by_automation_id,
     show_mode |-> show_mode, parent_task_id |-> parent_task_id]

add_task(ts, id, row) ==
    [x \in (DOMAIN ts) \cup {id} |-> IF x = id THEN row ELSE ts[x]]

\* A variant that selects by status alone.
get_tasks_AnyLevel(ts, status) == {x \in DOMAIN ts : ts[x].status = status}

\* database.get_tasks: the top-level tasks of a status.
get_tasks(ts, status) ==
    {x \in DOMAIN ts : ts[x].status = status /\ ts[x].parent_task_id = NULL}

get_pending_subtask_count(ts, task_id) ==
    Cardinality({s \in DOMAIN ts :
        ts[s].parent_task_id = task_id /\ ts[s].status = "pending"})

\* Number of prerequisites of task_id that are still pending.
get_pending_dependency_count(ts, deps, task_id) ==
    Cardinality({e \in deps :
        e[1] = task_id /\ e[2] \in DOMAIN ts /\ ts[e[2]].status = "pending"})

\* A variant that writes date_completed only when a date is given, so that
\* un-completing keeps the old date.
update_task_status_KeepDate(ts, task_id, new_status, date_completed) ==
    [x \in DOMAIN ts |->
        IF x = task_id
        THEN [ts[x] EXCEPT !.status = new_status,
                           !.date_completed = IF date_completed = NULL
                                              THEN @ ELSE date_completed]
        ELSE ts[x]]

update_task_status(ts, task_id, new_status, date_completed) ==
    [x \in DOMAIN ts |->
        IF x = task_id
        THEN [ts[x] EXCEPT !.status = new_status,
                           !.date_completed = date_completed]
        ELSE ts[x]]

update_task_details(ts, task_id, description, priority, category, deadline, show_mode) ==
    [x \in DOMAIN ts |->
        IF x = task_id
        THEN [ts[x] EXCEPT !.description = description,
                           !.priority = priority,
                           !.category = category,
                           !.deadline = deadline,
                           !.show_mode = show_mode]
        ELSE ts[x]]

get_show_dates_for_task(sd, task_id) == {e[2] : e \in {p \in sd : p[1] = task_id}}

is_task_logged_complete(log, task_id, date_str) == <<task_id, date_str>> \in log

get_tasks_by_deadline(ts, date_str) ==
    {t \in DOMAIN ts : ts[t].deadline = date_str /\ ts[t].status = "pending"}

get_tasks_by_show_date(ts, sd, date_str) ==
    {t \in DOMAIN ts : <<t, date_str>> \in sd}

get_tasks_always_pending(ts) ==
    {t \in DOMAIN ts : ts[t].show_mode = "always_pending" /\ ts[t].status = "pending"}

\* ON DELETE CASCADE over parent_task_id: the rows removed with task_id.
RECURSIVE CascadeFrom(_, _)
CascadeFrom(ts, S) ==
    LET kids == {x \in DOMAIN ts : ts[x].parent_task_id \in S} \ S
    IN  IF kids = {} THEN S ELSE CascadeFrom(ts, S \cup kids)

\* A variant without the cascade (foreign keys off).
DeletedWith_OnlyTask(ts, task_id) == {task_id}

DeletedWith(ts, task_id) == CascadeFrom(ts, {task_id})

delete_task_rows(ts, task_id) ==
    [x \in (DOMAIN ts) \ DeletedWith(ts, task_id) |-> ts[x]]

\* ON DELETE CASCADE of task_show_dates and task_completion_log.
delete_task_refs(rows, gone) == {e \in rows : e[1] \notin gone}

\* The dependency edges that survive the deletion of the tasks in gone.
delete_task_edges(deps, gone) ==
    {e \in deps : e[1] \notin gone /\ e[2] \notin gone}

\* ---- what the tabs show -------------------------------------------------

\* The top-level ancestor of a task.
RECURSIVE RootOf(_, _)
RootOf(ts, t) ==
    IF ts[t].parent_task_id = NULL \/ ts[t].parent_task_id \notin DOMAIN ts
    THEN t ELSE RootOf(ts, ts[t].parent_task_id)

\* Task Manager, pending view: a TaskWidget exists for every pending
\* top-level task and for every direct sub-task of one.
ManagerShows(ts, t) ==
    \/ ts[t].parent_task_id = NULL /\ ts[t].status = "pending"
    \/ /\ ts[t].parent_task_id \in DOMAIN ts
       /\ ts[ts[t].parent_task_id].parent_task_id = NULL
       /\ ts[ts[t].parent_task_id].status = "pending"

\* A TaskDetailsDialog can be opened on t: from its TaskWidget, or from the
\* sub-task list of the dialog of its parent.
DialogReachable(ts, t) == ts[RootOf(ts, t)].status = "pending"

\* Today dashboard for date d: the tasks that get a TodayTaskWidget.
TodayShows(ts, sd, log, t, d) ==
    LET is_complete_today == is_task_logged_complete(log, t, d)
        has_show_dates == get_show_dates_for_task(sd, t) # {}
        has_automation == ts[t].created_by_automation_id # NULL
        is_one_off_complete ==
            /\ ts[t].status = "completed"
            /\ ts[t].show_mode = "auto"
            /\ ~has_show_dates
            /\ ~has_automation
    IN  /\ t \in get_tasks_by_deadline(ts, d)
               \cup get_tasks_by_show_date(ts, sd, d)
               \cup get_tasks_always_pending(ts)
        /\ ~is_one_off_complete
        /\ ~(is_complete_today /\ ts[t].show_mode = "always_pending")
        /\ ~(is_complete_today /\ (has_show_dates \/ has_automation))

\* The rows of a SELECT as a list of ids, in rowid order.
RECURSIVE RowsOf(_)
RowsOf(S) ==
    IF S = {} THEN <<>>
    ELSE LET first == CHOOSE x \in S : \A y \in S : x <= y
         IN  <<first>> \o RowsOf(S \ {first})

\* The three lists _refresh_today_dashboard reads for date_str, put end to end.
today_task_rows(ts, sd, date_str) ==
    RowsOf(get_tasks_by_deadline(ts, date_str))
        \o RowsOf(get_tasks_by_show_date(ts, sd, date_str))
        \o RowsOf(get_tasks_always_pending(ts))

\* A variant that shows the concatenated lists as they are.
all_today_tasks_Concatenated(ts, sd, date_str) == today_task_rows(ts, sd, date_str)

\* "for task in ...: all_today_tasks[task['id']] = task": the keys of the
\* dict, in insertion order.
RECURSIVE DictKeys(_, _)
DictKeys(rows, keys) ==
    IF rows = <<>> THEN keys
    ELSE DictKeys(Tail(rows),
                  IF \E i \in 1..Len(keys) : keys[i] = Head(rows)
                  THEN keys ELSE Append(keys, Head(rows)))

\* all_today_tasks of _refresh_today_dashboard: the tasks due on date_str.
all_today_tasks(ts, sd, date_str) == DictKeys(today_task_rows(ts, sd, date_str), <<>>)

\* The pending_dependency_count a task widget reads from its row: the rows
\* come from SELECT * FROM tasks, which has no such column.
WidgetPendingDepCount(ts, t) == 0

\* ---- Task Manager tab and task details dialog ---------------------------

\* TaskManagerTab._add_task, entry bar with a description typed in: the
\* priority and category combos hold their reset values.
AddTask(description, deadline) ==
    /\ task_uuid < MaxTasks
    /\ tasks' = add_task(tasks, task_uuid + 1,
                    NewTaskRow(description, today, deadline, "Medium",
                               "General", NULL, "auto", NULL))
    /\ task_uuid' = task_uuid + 1
    /\ last' = [NoLast EXCEPT !.op = "add_task", !.task = task_uuid + 1,
                              !.outcome = "ok"]
    /\ UNCHANGED <<show_dates, completion_log, dependencies, schedVars,
                   autoVars, calVars, today, app_state, tmplVars, notifyVars, pomoVars>>

\* TaskDetailsDialog._add_sub_task on the dialog of task parent.
AddSubTask(parent, description) ==
    /\ parent \in DOMAIN tasks
    /\ DialogReachable(tasks, parent)
    /\ task_uuid < MaxTasks
    /\ tasks' = add_task(tasks, task_uuid + 1,
                    NewTaskRow(description, today, NULL, "Medium",
                               tasks[parent].category, NULL, "auto", parent))
    /\ task_uuid' = task_uuid + 1
    /\ last' = [NoLast EXCEPT !.op = "add_sub_task", !.task = task_uuid + 1,
                              !.outcome = "ok"]
    /\ UNCHANGED <<show_dates, completion_log, dependencies, schedVars,
                   autoVars, calVars, today, app_state, tmplVars, notifyVars, pomoVars>>

\* TaskDetailsDialog.save_details on an existing task; the priority and
\* category combos are left at the values the dialog loaded.
SaveDetails(t, description, deadline, show_mode) ==
    /\ t \in DOMAIN tasks
    /\ DialogReachable(tasks, t)
    /\ tasks' = update_task_details(tasks, t, description, tasks[t].priority,
                                    tasks[t].category, deadline, show_mode)
    /\ last' = [NoLast EXCEPT !.op = "save_details", !.task = t,
                              !.outcome = "ok"]
    /\ UNCHANGED <<task_uuid, show_dates, completion_log, dependencies,
                   schedVars, autoVars, calVars, today, app_state, tmplVars, notifyVars, pomoVars>>

\* ManageShowDatesDialog._on_date_clicked for an existing task.
ToggleShowDate(t, d) ==
    /\ t \in DOMAIN tasks
    /\ DialogReachable(tasks, t)
    /\ <<t, d>> \in show_dates \/ Cardinality(show_dates) < MaxShowDates
    /\ show_dates' = IF <<t, d>> \in show_dates
                     THEN show_dates \ {<<t, d>>}
                     ELSE show_dates \cup {<<t, d>>}
    /\ last' = [NoLast EXCEPT !.op = "toggle_show_date", !.task = t,
                              !.date = d, !.outcome = "ok"]
    /\ UNCHANGED <<tasks, task_uuid, completion_log, dependencies,
                   schedVars, autoVars, calVars, today, app_state, tmplVars, notifyVars, pomoVars>>

\* SelectDependencyDialog._populate_tasks: the tasks offered as a
\* prerequisite of current_task_id.
PopulateTasks(ts, current_task_id) ==
    {d \in DOMAIN ts :
        /\ ts[d].status = "pending"
        /\ d # current_task_id
        /\ ts[d].parent_task_id # current_task_id}

\* Storing a dependency edge.
add_task_dependency(deps, task_id, depends_on_id) ==
    deps \cup {<<task_id, depends_on_id>>}

remove_task_dependency(deps, task_id, depends_on_id) ==
    deps \ {<<task_id, depends_on_id>>}

\* TaskDetailsDialog._add_dependency: the user wants task t to depend on d;
\* d can be picked only when the selection dialog lists it.
AddDependency(t, d) ==
    /\ t \in DOMAIN tasks /\ d \in DOMAIN tasks
    /\ DialogReachable(tasks, t)
    /\ Cardinality(dependencies) < MaxDeps
    /\ IF d \in PopulateTasks(tasks, t)
       THEN /\ dependencies' = add_task_dependency(dependencies, t, d)
            /\ last' = [NoLast EXCEPT !.op = "add_dependency", !.task = t,
                                      !.outcome = "ok"]
       ELSE /\ dependencies' = dependencies
            /\ last' = [NoLast EXCEPT !.op = "add_dependency", !.task = t,
                                      !.outcome = "rejected"]
    /\ UNCHANGED <<tasks, task_uuid, show_dates, completion_log, schedVars,
                   autoVars, calVars, today, app_state, tmplVars, notifyVars, pomoVars>>

\* TaskDetailsDialog._remove_dependency.
RemoveDependency(t, d) ==
    /\ t \in DOMAIN tasks
    /\ DialogReachable(tasks, t)
    /\ <<t, d>> \in dependencies
    /\ dependencies' = remove_task_dependency(dependencies, t, d)
    /\ last' = [NoLast EXCEPT !.op = "remove_dependency", !.task = t,
                              !.outcome = "ok"]
    /\ UNCHANGED <<tasks, task_uuid, show_dates, completion_log, schedVars,
                   autoVars, calVars, today, app_state, tmplVars, notifyVars, pomoVars>>

\* The guard of TaskManagerTab._handle_task_status_change: the reason the
\* completion of task_id is refused, or "ok".
StatusChangeGuard(ts, deps, task_id) ==
    IF get_pending_subtask_count(ts, task_id) > 0 THEN "blocked"
    ELSE IF get_pending_dependency_count(ts, deps, task_id) > 0 THEN "blocked"
    ELSE "ok"

\* A variant that applies the checks to un-checking as well.
StatusChangeVerdict_AlwaysGuarded(ts, deps, task_id, is_checked) ==
    StatusChangeGuard(ts, deps, task_id)

\* What the widget and the handler answer to the toggle: only checking the
\* box is looked at, first by the widget, then by the guard of the handler.
StatusChangeVerdict(ts, deps, task_id, is_checked) ==
    IF is_checked /\ WidgetPendingDepCount(ts, task_id) > 0 THEN "blocked"
    ELSE IF is_checked THEN StatusChangeGuard(ts, deps, task_id)
    ELSE "ok"

\* TaskWidget._emit_status_change followed by
\* TaskManagerTab._handle_task_status_change: the checkbox of t is toggled.
HandleTaskStatusChange(t) ==
    /\ t \in DOMAIN tasks
    /\ ManagerShows(tasks, t)
    /\ LET is_checked == tasks[t].status = "pending"
           verdict == StatusChangeVerdict(tasks, dependencies, t, is_checked)
       IN  /\ tasks' = IF verdict = "ok"
                       THEN update_task_status(tasks, t,
                                IF is_checked THEN "completed" ELSE "pending",
                                IF is_checked THEN today ELSE NULL)
                       ELSE tasks
           /\ last' = [NoLast EXCEPT !.op = "task_status_change", !.task = t,
                                     !.checked = is_checked, !.date = today,
                                     !.outcome = verdict]
    /\ UNCHANGED <<task_uuid, show_dates, completion_log, dependencies,
                   schedVars, autoVars, calVars, today, app_state, tmplVars, notifyVars, pomoVars>>

\* database.delete_task with foreign keys on.
delete_task(task_id) ==
    LET gone == DeletedWith(tasks, task_id)
    IN  /\ tasks' = delete_task_rows(tasks, task_id)
        /\ show_dates' = delete_task_refs(show_dates, gone)
        /\ completion_log' = delete_task_refs(completion_log, gone)
        /\ dependencies' = delete_task_edges(dependencies, gone)

\* TaskManagerTab._handle_task_delete (the Delete button of a TaskWidget) and
\* TaskDetailsDialog._delete_sub_task (from the dialog of the parent).
HandleTaskDelete(t) ==
    /\ t \in DOMAIN tasks
    /\ \/ ManagerShows(tasks, t)
       \/ /\ tasks[t].parent_task_id \in DOMAIN tasks
          /\ DialogReachable(tasks, tasks[t].parent_task_id)
    /\ delete_task(t)
    /\ last' = [NoLast EXCEPT !.op = "delete_task", !.task = t,
                              !.outcome = "ok",
                              !.gone = (DOMAIN tasks) \ (DOMAIN tasks'),
                              !.dropped =
                                  <<Cardinality(show_dates \ show_dates'),
                                    Cardinality(completion_log \ completion_log'),
                                    Cardinality(dependencies \ dependencies')>>]
    /\ UNCHANGED <<task_uuid, schedVars, autoVars, calVars, today, app_state, tmplVars, notifyVars, pomoVars>>

\* ---- task templates ------------------------------------------------------

\* A row of a template as TemplateTaskEditorDialog.get_task_data returns it.
TemplateRow(description, priority, is_sub_task) ==
    [description |-> description, priority |-> priority,
     is_sub_task |-> is_sub_task]

\* save_task_template for a new template: the template and its ordered rows.
save_task_template(tpls, id, template_data, template_tasks_list) ==
    [x \in (DOMAIN tpls) \cup {id} |->
        IF x = id
        THEN [name |-> template_data.name,
              default_category |-> template_data.default_category,
              default_priority |-> template_data.default_priority,
              tasks |-> template_tasks_list]
        ELSE tpls[x]]

\* ManageTaskTemplatesDialog._save_template for a new template.
SaveTemplate(name, default_category, template_tasks_list) ==
    /\ template_uuid < MaxTemplates
    /\ IF \/ name = ""
          \/ template_tasks_list = <<>>
          \/ template_tasks_list[1].is_sub_task
       THEN /\ UNCHANGED tmplVars
            /\ last' = [NoLast EXCEPT !.op = "save_template",
                                      !.outcome = "rejected"]
       ELSE /\ templates' = save_task_template(templates, template_uuid + 1,
                                [name |-> name,
                                 default_category |-> default_category,
                                 default_priority |->
                                     template_tasks_list[1].priority],
                                template_tasks_list)
            /\ template_uuid' = template_uuid + 1
            /\ last' = [NoLast EXCEPT !.op = "save_template",
                                      !.template = template_uuid + 1,
                                      !.outcome = "ok"]
    /\ UNCHANGED <<taskVars, schedVars, autoVars, calVars, today, app_state, notifyVars, pomoVars>>

\* A variant that makes a top-level task of every row.
TemplateTask_TopLevel(tpl, row, date_added, parent_id) ==
    NewTaskRow(row.description, date_added, NULL, row.priority,
               tpl.default_category, NULL, "auto", NULL)

\* The task made of a row of the template: the parent row gives a top-level
\* task, a sub-task row a task under parent_id.
TemplateTask(tpl, row, date_added, parent_id) ==
    NewTaskRow(row.description, date_added, NULL, row.priority,
               tpl.default_category, NULL, "auto",
               IF row.is_sub_task THEN parent_id ELSE NULL)

\* instantiate_task_template: the tasks of the store after the rows of the
\* template have been made into tasks, the parent row getting the id
\* first_id and the rows after it the ids that follow.
instantiate_task_template(ts, tpl, first_id, date_added) ==
    [x \in (DOMAIN ts) \cup (first_id .. first_id + Len(tpl.tasks) - 1) |->
        IF x \in DOMAIN ts THEN ts[x]
        ELSE TemplateTask(tpl, tpl.tasks[x - first_id + 1], date_added, first_id)]

\* TaskManagerTab._add_task with a template selected in the combo box.
InstantiateTemplate(template_id) ==
    /\ template_id \in DOMAIN templates
    /\ task_uuid + Len(templates[template_id].tasks) <= MaxTasks
    /\ IF \/ templates[template_id].tasks = <<>>
          \/ templates[template_id].tasks[1].is_sub_task
       THEN /\ UNCHANGED <<tasks, task_uuid>>
            /\ last' = [NoLast EXCEPT !.op = "instantiate_template",
                                      !.template = template_id,
                                      !.outcome = "error"]
       ELSE /\ tasks' = instantiate_task_template(tasks, templates[template_id],
                            task_uuid + 1, today)
            /\ task_uuid' = task_uuid + Len(templates[template_id].tasks)
            /\ last' = [NoLast EXCEPT
                          !.op = "instantiate_template",
                          !.template = template_id,
                          !.task = task_uuid + 1,
                          !.new_task_ids =
                              (task_uuid + 1) ..
                                  (task_uuid + Len(templates[template_id].tasks)),
                          !.outcome = "ok"]
    /\ UNCHANGED <<show_dates, completion_log, dependencies, schedVars,
                   autoVars, calVars, today, app_state, tmplVars, notifyVars, pomoVars>>

\* ---- Today dashboard ----------------------------------------------------

\* A variant that forgets always-pending tasks.
IsRecurring_NoAlwaysPending(ts, sd, task_id) ==
    \/ get_show_dates_for_task(sd, task_id) # {}
    \/ ts[task_id].created_by_automation_id # NULL

\* TodayDashboardTab._handle_today_task_completion: is the task recurring.
IsRecurring(ts, sd, task_id) ==
    \/ get_show_dates_for_task(sd, task_id) # {}
    \/ ts[task_id].created_by_automation_id # NULL
    \/ ts[task_id].show_mode = "always_pending"

log_task_completion(log, task_id, completion_date) ==
    log \cup {<<task_id, completion_date>>}

remove_task_completion_log(log, task_id, completion_date) ==
    log \ {<<task_id, completion_date>>}

\* The body of _handle_today_task_completion(task_id, date_str, is_checked).
TodayCompletion(task_id, date_str, is_checked) ==
    IF IsRecurring(tasks, show_dates, task_id)
    THEN /\ completion_log' =
                IF is_checked
                THEN log_task_completion(completion_log, task_id, date_str)
                ELSE remove_task_completion_log(completion_log, task_id, date_str)
         /\ tasks' = tasks
    ELSE /\ tasks' =
                IF is_checked
                THEN update_task_status(tasks, task_id, "completed", date_str)
                ELSE update_task_status(tasks, task_id, "pending", NULL)
         /\ completion_log' = completion_log

\* TodayTaskWidget._emit_completion_change followed by
\* TodayDashboardTab._handle_today_task_completion: the dashboard shows date
\* d and the checkbox of t is toggled.  The widget sends the date of the day
\* it was built on, not the date the dashboard shows.
HandleTodayTaskCompletion(t, d) ==
    /\ t \in DOMAIN tasks
    /\ TodayShows(tasks, show_dates, completion_log, t, d)
    /\ LET is_checked == ~is_task_logged_complete(completion_log, t, d)
           date_str == today
       IN  IF is_checked /\ WidgetPendingDepCount(tasks, t) > 0
           THEN /\ UNCHANGED <<tasks, completion_log>>
                /\ last' = [NoLast EXCEPT !.op = "today_completion",
                                !.task = t, !.date = date_str,
                                !.checked = is_checked,
                                !.recurring = IsRecurring(tasks, show_dates, t),
                                !.outcome = "blocked"]
           ELSE /\ TodayCompletion(t, date_str, is_checked)
                /\ last' = [NoLast EXCEPT !.op = "today_completion",
                                !.task = t, !.date = date_str,
                                !.checked = is_checked,
                                !.recurring = IsRecurring(tasks, show_dates, t),
                                !.outcome = "ok"]
    /\ UNCHANGED <<task_uuid, show_dates, dependencies, schedVars, autoVars,
                   calVars, today, app_state, tmplVars, notifyVars, pomoVars>>

\* ---- dates and their text ------------------------------------------------

\* The current date counts the days of 2024 from 1 (Monday 1 January): its
\* month and its day of the month, over January and February.
MonthOf(date) == IF date <= 31 THEN 1 ELSE 2
DayOfMonth(date) == IF date <= 31 THEN date ELSE date - 31

TwoDigits ==
    <<"01", "02", "03", "04", "05", "06", "07", "08", "09", "10", "11", "12",
      "13", "14", "15", "16", "17", "18", "19", "20", "21", "22", "23", "24",
      "25", "26", "27", "28", "29", "30", "31">>

\* datetime.strftime: a directive is replaced by the field of the date it
\* names, any other piece of the format is copied as it stands.
strftime(date, format) ==
    [i \in 1..Len(format) |->
        CASE format[i] = "%Y" -> "2024"
          [] format[i] = "%m" -> TwoDigits[MonthOf(date)]
          [] format[i] = "%d" -> TwoDigits[DayOfMonth(date)]
          [] OTHER -> format[i]]

\* The format of every date the store holds ("%Y-%m-%d", "yyyy-MM-dd"), and
\* the format _run_startup_automations passes to strftime.
IsoFormat == <<"%Y", "-", "%m", "-", "%d">>
StartupFormat == <<"%Y", "-", "m", "-", "%d">>

\* The text a date column holds for a date.
DateText(date) == strftime(date, IsoFormat)

\* ---- the store: application state ----------------------------------------

\* create_tables: the marker of the last sweep starts at '1970-01-01', the
\* timer settings at '25', '5', '15' and '4'.
InitialAppState ==
    [last_automation_run_date |-> <<"1970", "-", "01", "-", "01">>,
     pomodoro_work_min |-> <<"2", "5">>,
     pomodoro_short_break_min |-> <<"5">>,
     pomodoro_long_break_min |-> <<"1", "5">>,
     pomodoro_sessions |-> <<"4">>]

get_app_state(st, key) == IF key \in DOMAIN st THEN st[key] ELSE <<>>

set_app_state(st, key, value) ==
    [k \in (DOMAIN st) \cup {key} |-> IF k = key THEN value ELSE st[k]]

\* ---- the store: schedule events, calendar events, rules ------------------

\* A variant that keeps one block per (date, title, times).
add_schedule_event_IfAbsent(evs, id, row) ==
    IF \E x \in DOMAIN evs : evs[x] = row THEN evs
    ELSE [x \in (DOMAIN evs) \cup {id} |-> IF x = id THEN row ELSE evs[x]]

add_schedule_event(evs, id, row) ==
    [x \in (DOMAIN evs) \cup {id} |-> IF x = id THEN row ELSE evs[x]]

add_calendar_event(cal, id, row) ==
    [x \in (DOMAIN cal) \cup {id} |-> IF x = id THEN row ELSE cal[x]]

link_task_to_event(ts, task_id, event_id) ==
    [x \in DOMAIN ts |->
        IF x = task_id THEN [ts[x] EXCEPT !.schedule_event_id = event_id]
        ELSE ts[x]]

\* A variant that stores no row.
add_task_show_date_Skip(sd, task_id, show_date) == sd

\* INSERT OR IGNORE under the primary key (task_id, show_date).
add_task_show_date(sd, task_id, show_date) == sd \cup {<<task_id, show_date>>}

\* A variant that unlinks every task, whatever event it is linked to.
unlink_all_tasks_from_event_Every(ts, event_id) ==
    [x \in DOMAIN ts |-> [ts[x] EXCEPT !.schedule_event_id = NULL]]

\* A variant that leaves every link in place.
unlink_all_tasks_from_event_None(ts, event_id) == ts

unlink_all_tasks_from_event(ts, event_id) ==
    [x \in DOMAIN ts |->
        IF ts[x].schedule_event_id = event_id
        THEN [ts[x] EXCEPT !.schedule_event_id = NULL]
        ELSE ts[x]]

get_tasks_for_event(ts, event_id) ==
    {x \in DOMAIN ts : ts[x].schedule_event_id = event_id}

\* database.delete_schedule_event, the rows of schedule_events it leaves; the
\* tasks are unlinked in the same transaction.
delete_schedule_event(evs, event_id) ==
    [x \in (DOMAIN evs) \ {event_id} |-> evs[x]]

\* ScheduleEventDialog.delete_event, confirmed, for the event the dialog was
\* opened on.
DeleteScheduleEvent(event_id) ==
    /\ event_id \in DOMAIN schedule_events
    /\ schedule_events' = delete_schedule_event(schedule_events, event_id)
    /\ tasks' = unlink_all_tasks_from_event(tasks, event_id)
    /\ last' = [NoLast EXCEPT !.op = "delete_schedule_event",
                              !.event = event_id,
                              !.unlinked = get_tasks_for_event(tasks, event_id),
                              !.outcome = "ok"]
    /\ UNCHANGED <<task_uuid, show_dates, completion_log, dependencies,
                   event_uuid, autoVars, calVars, today, app_state, tmplVars, notifyVars, pomoVars>>

\* A title is a sequence of characters; str.lower() maps each of them.
LowerChar(c) ==
    CASE c = "L" -> "l"
      [] c = "S" -> "s"
      [] c = "G" -> "g"
      [] OTHER -> c

Lower(title) == [i \in 1..Len(title) |-> LowerChar(title[i])]

\* The UNIQUE constraint of automations.trigger_title: TEXT columns compare
\* byte by byte, so titles clash only when they are equal.
TriggerTitleTaken(rules, automation_id, trigger_title) ==
    \E r \in DOMAIN rules :
        r # automation_id /\ rules[r].trigger_title = trigger_title

\* database.save_automation_rule: insert or update the rule row and replace
\* its actions, in one transaction.
save_automation_rule(rules, id, rule_name, trigger_title, actions_list, day_mask) ==
    [x \in (DOMAIN rules) \cup {id} |->
        IF x = id
        THEN [rule_name |-> rule_name, trigger_title |-> trigger_title,
              trigger_day_of_week |-> day_mask, actions |-> actions_list]
        ELSE rules[x]]

\* A variant that deletes nothing.
delete_automation_rule_Keep(rules, automation_id) == rules

\* database.delete_automation_rule: the rule row goes, and its actions with
\* it (ON DELETE CASCADE, foreign keys on).
delete_automation_rule(rules, automation_id) ==
    [x \in (DOMAIN rules) \ {automation_id} |-> rules[x]]

\* get_automations: ORDER BY rule_name.  The rules a dict built from that
\* list can hold under key: the last of the rows whose lowered trigger title
\* is key, rows of equal rule_name coming in either order.
RulesMapCandidates(rules, key) ==
    LET hits == {r \in DOMAIN rules : Lower(rules[r].trigger_title) = key}
    IN  {r \in hits : \A q \in hits : rules[q].rule_name <= rules[r].rule_name}

\* ---- schedule event dialog and schedule action dialog --------------------

\* Times of day are QTime values, counted in minutes since midnight.
\* QTime.toString("HH:mm"): the four digits of the text (the colon is the
\* same in every text).
TimeText(t) == <<t \div 600, (t \div 60) % 10, (t % 60) \div 10, t % 10>>

\* Order of two "HH:mm" texts as TEXT columns and Python strings compare.
TextBefore(a, b) ==
    \E i \in 1..4 : a[i] < b[i] /\ \A j \in 1..(i - 1) : a[j] = b[j]

\* A variant that lets a block of no length through.
EndNotAfterStart_Strict(start_qtime, end_qtime) == end_qtime < start_qtime

\* The test "end_qtime <= start_qtime" of ScheduleEventDialog.save_event and
\* of ScheduleActionDialog.get_data.
EndNotAfterStart(start_qtime, end_qtime) == end_qtime <= start_qtime

\* ScheduleActionDialog.get_data: the action of the form as a list of one,
\* the empty list for None.
ScheduleActionDialog_get_data(title, start_qtime, end_qtime) ==
    IF title = "" THEN <<>>
    ELSE IF EndNotAfterStart(start_qtime, end_qtime) THEN <<>>
    ELSE <<[action_type |-> "create_schedule_block", param1 |-> title,
            param2 |-> start_qtime, param3 |-> end_qtime]>>

\* AutomationRuleDialog._add_schedule_action: "if action_data: append".
AddScheduleActionTo(actions_list, action_data) == actions_list \o action_data

unlink_task_from_event(ts, task_id, event_id) ==
    [x \in DOMAIN ts |->
        IF x = task_id /\ ts[x].schedule_event_id = event_id
        THEN [ts[x] EXCEPT !.schedule_event_id = NULL]
        ELSE ts[x]]

update_schedule_event(evs, event_id, row) ==
    [x \in DOMAIN evs |-> IF x = event_id THEN row ELSE evs[x]]

\* ScheduleEventDialog._populate_linkable_tasks: the pending top-level tasks
\* that are unlinked or linked to the event of the dialog.
LinkableTasks(ts, current_event_id) ==
    {t \in get_tasks(ts, "pending") :
        \/ ts[t].schedule_event_id = NULL
        \/ current_event_id # NULL /\ ts[t].schedule_event_id = current_event_id}

\* The loop over linked_task_vars of save_event for the tasks in done.
SaveLinks(ts, done, checked, event_id) ==
    [x \in DOMAIN ts |->
        IF x \in done /\ x \in checked
        THEN [ts[x] EXCEPT !.schedule_event_id = event_id]
        ELSE IF x \in done /\ ts[x].schedule_event_id = event_id
        THEN [ts[x] EXCEPT !.schedule_event_id = NULL]
        ELSE ts[x]]

\* ScheduleEventDialog.save_event on a dialog opened for the event
\* current_event_id (NULL for a new block on date_str) with the boxes of
\* checked ticked; the store refuses the write numbered fail (none when fail
\* is 0): write 1 stores the event, each later write is one link or unlink.
SaveScheduleEvent(current_event_id, date_str, title, start_qtime, end_qtime, checked, fail) ==
    /\ current_event_id = NULL \/ current_event_id \in DOMAIN schedule_events
    /\ current_event_id = NULL => event_uuid < MaxEvents
    /\ checked \subseteq LinkableTasks(tasks, current_event_id)
    /\ fail <= 1 + Cardinality(LinkableTasks(tasks, current_event_id))
    /\ IF title = "" \/ EndNotAfterStart(start_qtime, end_qtime)
       THEN /\ UNCHANGED <<tasks, schedVars>>
            /\ last' = [NoLast EXCEPT !.op = "save_schedule_event",
                                      !.event = current_event_id,
                                      !.outcome = "rejected"]
       ELSE IF fail = 1
       THEN /\ UNCHANGED <<tasks, schedVars>>
            /\ last' = [NoLast EXCEPT !.op = "save_schedule_event",
                                      !.event = current_event_id,
                                      !.outcome = "error", !.failed = TRUE]
       ELSE \E done \in SUBSET LinkableTasks(tasks, current_event_id) :
            /\ Cardinality(done) = IF fail = 0
                                   THEN Cardinality(LinkableTasks(tasks, current_event_id))
                                   ELSE fail - 2
            /\ LET event_id == IF current_event_id = NULL THEN event_uuid + 1
                                ELSE current_event_id
                   row == [date |-> IF current_event_id = NULL THEN date_str
                                    ELSE schedule_events[current_event_id].date,
                           title |-> title,
                           start_time |-> start_qtime, end_time |-> end_qtime,
                           color |-> IF current_event_id = NULL THEN "#3B8ED0"
                                     ELSE schedule_events[current_event_id].color]
               IN  /\ schedule_events' =
                          IF current_event_id = NULL
                          THEN add_schedule_event(schedule_events, event_id, row)
                          ELSE update_schedule_event(schedule_events, event_id, row)
                   /\ event_uuid' = IF current_event_id = NULL THEN event_uuid + 1
                                    ELSE event_uuid
                   /\ tasks' = SaveLinks(tasks, done, checked, event_id)
                   /\ last' = [NoLast EXCEPT !.op = "save_schedule_event",
                                             !.event = event_id,
                                             !.outcome = IF fail = 0 THEN "ok" ELSE "error",
                                             !.failed = fail # 0]
    /\ UNCHANGED <<task_uuid, show_dates, completion_log, dependencies, autoVars, calVars, today, app_state, tmplVars, notifyVars, pomoVars>>

\* ---- automation engine (main.py) ----------------------------------------

\* A variant that never finds a task to reuse.
ExistingTasks_None(ts, automation_id, desc) == {}

\* A variant that looks among the completed tasks.
ExistingTasks_Completed(ts, automation_id, desc) ==
    {t \in DOMAIN ts :
        /\ ts[t].created_by_automation_id = automation_id
        /\ ts[t].description = desc
        /\ ts[t].status = "completed"}

\* The pending tasks an ensure_task_link action may reuse.
ExistingTasks(ts, automation_id, desc) ==
    {t \in DOMAIN ts :
        /\ ts[t].created_by_automation_id = automation_id
        /\ ts[t].description = desc
        /\ ts[t].status = "pending"}

\* next(...) over get_all_tasks(), which is ORDER BY date_added: the first
\* of the candidates; tie says how rows of equal date_added are ordered.
FirstByDateAdded(ts, S, tie) ==
    LET early == {t \in S : \A u \in S : ts[t].date_added <= ts[u].date_added}
    IN  IF tie = "first"
        THEN CHOOSE t \in early : \A u \in early : t <= u
        ELSE CHOOSE t \in early : \A u \in early : t >= u

\* A run works on a store that counts the writes the run makes; the write
\* numbered fail is the one the store refuses by raising an exception (none
\* when fail is 0).
Raises(db) == db.writes + 1 = db.fail

\* The store after a write has been attempted, whether it raised or not.
Attempted(db) ==
    [db EXCEPT !.writes = @ + 1, !.failed = @ \/ Raises(db)]

\* MainWindow._execute_automation_action on the store db; the result is the
\* new store and the id the action returns (NULL for None).  An exception of
\* a write is caught by the handler of the function, which prints it and
\* returns None.
execute_automation_action(db, action, date_str, automation_id, tie) ==
    IF action.action_type = "ensure_task_link"
    THEN IF action.param1 = ""
         THEN [db |-> db, id |-> NULL]
         ELSE LET existing == ExistingTasks(db.tasks, automation_id, action.param1)
                  found == existing # {}
                  task_id == IF found
                             THEN FirstByDateAdded(db.tasks, existing, tie)
                             ELSE db.task_uuid + 1
                  added == IF found THEN db
                           ELSE [Attempted(db) EXCEPT
                                    !.tasks = add_task(@, task_id,
                                        NewTaskRow(action.param1, date_str, NULL,
                                                   action.param2, action.param3,
                                                   automation_id, "auto", NULL)),
                                    !.task_uuid = @ + 1]
              IN  IF ~found /\ Raises(db)
                  THEN [db |-> Attempted(db), id |-> NULL]
                  ELSE IF Raises(added)
                  THEN [db |-> Attempted(added), id |-> NULL]
                  ELSE [db |-> [Attempted(added) EXCEPT
                                  !.show_dates =
                                      add_task_show_date(@, task_id, date_str)],
                        id |-> task_id]
    ELSE IF action.action_type = "create_schedule_block"
    THEN IF action.param1 # "" /\ action.param2 # NULL /\ action.param3 # NULL
         THEN LET new_event_id == db.event_uuid + 1
              IN  IF Raises(db)
                  THEN [db |-> Attempted(db), id |-> NULL]
                  ELSE [db |-> [Attempted(db) EXCEPT
                                  !.schedule_events =
                                      add_schedule_event(@, new_event_id,
                                          [date |-> date_str,
                                           title |-> action.param1,
                                           start_time |-> action.param2,
                                           end_time |-> action.param3,
                                           color |-> "#6A1B9A"]),
                                  !.event_uuid = @ + 1],
                        id |-> new_event_id]
         ELSE [db |-> db, id |-> NULL]
    ELSE [db |-> db, id |-> NULL]

\* The loop "for action in actions: id = _execute_automation_action(...);
\* if id: ids.append(id)" of run_automations_for_event.
RECURSIVE RunActions(_, _, _, _, _, _)
RunActions(db, actions, date_str, automation_id, tie, ids) ==
    IF actions = <<>>
    THEN [db |-> db, ids |-> ids]
    ELSE LET r == execute_automation_action(db, Head(actions), date_str,
                                            automation_id, tie)
         IN  RunActions(r.db, Tail(actions), date_str, automation_id, tie,
                        IF r.id # NULL THEN Append(ids, r.id) ELSE ids)

\* The inner loop of the linking step: one task, every created event in
\* turn; a link that raises is printed and the loop goes on.
RECURSIVE LinkTaskToEvents(_, _, _)
LinkTaskToEvents(db, task_id, event_ids) ==
    IF event_ids = <<>> THEN db
    ELSE LinkTaskToEvents(
             IF Raises(db) THEN Attempted(db)
             ELSE [Attempted(db) EXCEPT
                      !.tasks = link_task_to_event(@, task_id, Head(event_ids))],
             task_id, Tail(event_ids))

\* The outer loop of the linking step.
RECURSIVE LinkTasksToEvents(_, _, _)
LinkTasksToEvents(db, task_ids, event_ids) ==
    IF task_ids = <<>> THEN db
    ELSE LinkTasksToEvents(LinkTaskToEvents(db, Head(task_ids), event_ids),
                           Tail(task_ids), event_ids)

IsTaskAction(a) == a.action_type = "ensure_task_link"
IsScheduleAction(a) == a.action_type = "create_schedule_block"

\* The store a run works on, its write numbered fail being refused.
StoreDb(fail) ==
    [tasks |-> tasks, task_uuid |-> task_uuid, show_dates |-> show_dates,
     schedule_events |-> schedule_events, event_uuid |-> event_uuid,
     writes |-> 0, fail |-> fail, failed |-> FALSE]

\* The store a run works on when every write succeeds.
CurrentDb == StoreDb(0)

\* A variant that reports only the task actions.
ActionsRun_TasksOnly(task_ids, event_ids) == task_ids # <<>>

\* actions_run of run_automations_for_event: set when an action returned an
\* id, in either of the two loops.
ActionsRun(task_ids, event_ids) == task_ids # <<>> \/ event_ids # <<>>

\* MainWindow.run_automations_for_event(event_title, event_date_str) on the
\* store db with the matching rule being automation_id (NULL when no rule
\* matches): the store it leaves, the ids it collected and the value it
\* returns.
run_automations_on(db, event_title, event_date_str, automation_id, tie) ==
    IF event_title = <<>> \/ DOMAIN automations = {} \/ automation_id = NULL
    THEN [db |-> db, created_task_ids |-> <<>>,
          created_event_ids |-> <<>>, actions_run |-> FALSE]
    ELSE LET actions == automations[automation_id].actions
             t == RunActions(db, SelectSeq(actions, IsTaskAction),
                             event_date_str, automation_id, tie, <<>>)
             e == RunActions(t.db, SelectSeq(actions, IsScheduleAction),
                             event_date_str, automation_id, tie, <<>>)
             linked == IF t.ids # <<>> /\ e.ids # <<>>
                       THEN LinkTasksToEvents(e.db, t.ids, e.ids)
                       ELSE e.db
         IN  [db |-> linked,
              created_task_ids |-> t.ids, created_event_ids |-> e.ids,
              actions_run |-> ActionsRun(t.ids, e.ids)]

\* The run on the store as it is now.
run_automations_for_event(event_title, event_date_str, automation_id, tie) ==
    run_automations_on(CurrentDb, event_title, event_date_str, automation_id, tie)

\* The rule rules_map holds for the event title, NULL when it holds none.
MatchingRules(event_title) ==
    IF event_title = <<>> \/ RulesMapCandidates(automations, Lower(event_title)) = {}
    THEN {NULL}
    ELSE RulesMapCandidates(automations, Lower(event_title))

\* CalendarDateDialog._add_event: the event is stored, then the automations
\* are run for its title and date; the store refuses the write numbered fail
\* of the run.
AddCalendarEventFailing(title, date_str, tie, fail) ==
    /\ cal_uuid < MaxCalEvents
    /\ \E automation_id \in MatchingRules(title) :
        \E r \in {run_automations_on(StoreDb(fail), title, date_str,
                                     automation_id, tie)} :
            /\ r.db.task_uuid <= MaxTasks
            /\ r.db.event_uuid <= MaxEvents
            /\ tasks' = r.db.tasks
            /\ task_uuid' = r.db.task_uuid
            /\ show_dates' = r.db.show_dates
            /\ schedule_events' = r.db.schedule_events
            /\ event_uuid' = r.db.event_uuid
            /\ last' = [NoLast EXCEPT
                          !.op = "add_calendar_event",
                          !.title = title, !.date = date_str,
                          !.rule = automation_id,
                          !.ret = r.actions_run,
                          !.outcome = IF r.actions_run THEN "run" ELSE "not run",
                          !.created_task_ids = r.created_task_ids,
                          !.created_event_ids = r.created_event_ids,
                          !.new_task_ids = (DOMAIN r.db.tasks) \ (DOMAIN tasks),
                          !.failed = r.db.failed,
                          !.repeat = /\ last.op = "add_calendar_event"
                                     /\ last.ret
                                     /\ last.rule = automation_id
                                     /\ last.title = title
                                     /\ last.date = date_str]
    /\ calendar_events' = add_calendar_event(calendar_events, cal_uuid + 1,
                              [date |-> date_str, title |-> title,
                               start_time |-> NULL, end_time |-> NULL])
    /\ cal_uuid' = cal_uuid + 1
    /\ UNCHANGED <<completion_log, dependencies, autoVars, today, app_state, tmplVars, notifyVars, pomoVars>>

\* CalendarDateDialog._add_event with a store that accepts every write.
AddCalendarEvent(title, date_str, tie) ==
    AddCalendarEventFailing(title, date_str, tie, 0)

\* The code point of a character of a title, by which TEXT columns order.
CharCode(c) ==
    CASE c = "G" -> 71
      [] c = "L" -> 76
      [] c = "S" -> 83
      [] c = "g" -> 103
      [] c = "l" -> 108
      [] c = "s" -> 115
      [] OTHER -> 0

RECURSIVE TitleBefore(_, _)
TitleBefore(a, b) ==
    IF b = <<>> THEN FALSE
    ELSE IF a = <<>> THEN TRUE
    ELSE IF Head(a) # Head(b) THEN CharCode(Head(a)) < CharCode(Head(b))
    ELSE TitleBefore(Tail(a), Tail(b))

\* The rows S of calendar_events in the order ORDER BY start_time, title
\* gives them; rows of equal title come in either order.
RECURSIVE EventsInOrder(_, _, _)
EventsInOrder(cal, S, tie) ==
    IF S = {} THEN <<>>
    ELSE LET first == CHOOSE x \in S : \A y \in S \ {x} :
                          \/ TitleBefore(cal[x].title, cal[y].title)
                          \/ /\ cal[x].title = cal[y].title
                             /\ IF tie = "first" THEN x < y ELSE x > y
         IN  <<first>> \o EventsInOrder(cal, S \ {first}, tie)

\* database.get_calendar_events_for_date: the rows whose date column holds
\* the text date.
get_calendar_events_for_date(cal, date, tie) ==
    EventsInOrder(cal, {x \in DOMAIN cal : DateText(cal[x].date) = date}, tie)

\* The rule the run picks for a title out of rules_map.
RuleFor(event_title, tie) ==
    LET found == MatchingRules(event_title)
    IN  IF tie = "first" THEN CHOOSE r \in found : \A q \in found : r <= q
        ELSE CHOOSE r \in found : \A q \in found : q <= r

\* The loop of _run_startup_automations over events_today.
RECURSIVE RunEvents(_, _, _, _)
RunEvents(db, events, today_str, tie) ==
    IF events = <<>> THEN db
    ELSE LET title == calendar_events[Head(events)].title
             r == run_automations_on(db, title, today_str,
                                     RuleFor(title, tie), tie)
         IN  RunEvents(r.db, Tail(events), today_str, tie)

\* MainWindow._run_startup_automations, run once by a timer when the
\* application has started.
RunStartupAutomations(tie) ==
    /\ \E today_str \in {strftime(today, StartupFormat)},
          last_run \in {get_app_state(app_state, "last_automation_run_date")} :
          IF last_run = today_str
          THEN /\ UNCHANGED <<tasks, task_uuid, show_dates, schedVars, app_state>>
               /\ last' = [NoLast EXCEPT !.op = "startup_sweep",
                                         !.date = today,
                                         !.outcome = "skipped",
                                         !.marker = last_run]
          ELSE \E events_today \in
                    {get_calendar_events_for_date(calendar_events, today_str, tie)} :
               \E db \in {RunEvents(CurrentDb, events_today, today_str, tie)} :
                  /\ db.task_uuid <= MaxTasks
                  /\ db.event_uuid <= MaxEvents
                  /\ tasks' = db.tasks
                  /\ task_uuid' = db.task_uuid
                  /\ show_dates' = db.show_dates
                  /\ schedule_events' = db.schedule_events
                  /\ event_uuid' = db.event_uuid
                  /\ app_state' = set_app_state(app_state,
                                       "last_automation_run_date", today_str)
                  /\ last' = [NoLast EXCEPT
                                !.op = "startup_sweep",
                                !.date = today,
                                !.outcome = IF events_today = <<>>
                                            THEN "no events" ELSE "ran",
                                !.events = {events_today[i] :
                                               i \in 1..Len(events_today)},
                                !.marker = last_run]
    /\ UNCHANGED <<completion_log, dependencies, autoVars, calVars, today,
                   tmplVars, notifyVars, pomoVars>>

\* The rule store inside the transaction of save_automation_rule once its
\* first n writes are done: write 1 is the INSERT or UPDATE of the rule row,
\* for an edited rule write 2 is the DELETE of its actions, and every later
\* write is the INSERT of one action of actions_list.
save_automation_rule_upto(rules, automation_id, id, rule_name, trigger_title, actions_list, day_mask, n) ==
    IF n = 0 THEN rules
    ELSE LET base == IF automation_id = NULL THEN 1 ELSE 2
         IN  [x \in (DOMAIN rules) \cup {id} |->
                 IF x = id
                 THEN [rule_name |-> rule_name, trigger_title |-> trigger_title,
                       trigger_day_of_week |-> day_mask,
                       actions |-> IF n < base THEN rules[id].actions
                                   ELSE SubSeq(actions_list, 1, n - base)]
                 ELSE rules[x]]

\* A variant that keeps what the transaction had written when it failed.
Rollback_Keep(before, written) == written

\* conn.rollback() in the except branch of save_automation_rule.
Rollback(before, written) == before

\* AutomationRuleDialog.save_rule for a new rule (automation_id = NULL) or
\* for the edited rule automation_id; the store refuses the write numbered
\* fail of the transaction (none when fail is 0), and the write of the rule
\* row whenever the trigger title is taken.
SaveRuleFailing(automation_id, rule_name, trigger_title, day_mask, actions_list, fail) ==
    /\ automation_id = NULL \/ automation_id \in DOMAIN automations
    /\ automation_id = NULL => rule_uuid < MaxRules
    /\ fail <= (IF automation_id = NULL THEN 1 ELSE 2) + Len(actions_list)
    /\ LET id == IF automation_id = NULL THEN rule_uuid + 1 ELSE automation_id
           refused ==
               \/ day_mask = 0
               \/ rule_name = NULL \/ trigger_title = <<>>
               \/ actions_list = <<>>
           taken == TriggerTitleTaken(automations, id, trigger_title)
           raising == IF taken THEN 1 ELSE fail
       IN  IF refused
           THEN /\ UNCHANGED autoVars
                /\ last' = [NoLast EXCEPT !.op = "save_rule",
                                          !.rule = automation_id,
                                          !.title = trigger_title,
                                          !.outcome = "rejected"]
           ELSE IF raising # 0
           THEN /\ automations' = Rollback(automations,
                                      save_automation_rule_upto(automations,
                                          automation_id, id, rule_name,
                                          trigger_title, actions_list, day_mask,
                                          raising - 1))
                /\ UNCHANGED rule_uuid
                /\ last' = [NoLast EXCEPT !.op = "save_rule",
                                          !.rule = automation_id,
                                          !.title = trigger_title,
                                          !.outcome = IF taken THEN "rejected" ELSE "error",
                                          !.failed = ~taken]
           ELSE /\ automations' = save_automation_rule(automations, id, rule_name,
                                      trigger_title, actions_list, day_mask)
                /\ rule_uuid' = IF automation_id = NULL THEN rule_uuid + 1
                                ELSE rule_uuid
                /\ last' = [NoLast EXCEPT !.op = "save_rule", !.rule = id,
                                          !.title = trigger_title,
                                          !.outcome = "ok"]
    /\ UNCHANGED <<taskVars, schedVars, calVars, today, app_state, tmplVars, notifyVars, pomoVars>>

\* AutomationRuleDialog.save_rule with a store that refuses no write.
SaveRule(automation_id, rule_name, trigger_title, day_mask, actions_list) ==
    SaveRuleFailing(automation_id, rule_name, trigger_title, day_mask, actions_list, 0)

\* ManageAutomationsDialog._delete_rule.
DeleteRule(automation_id) ==
    /\ automation_id \in DOMAIN automations
    /\ automations' = delete_automation_rule(automations, automation_id)
    /\ last' = [NoLast EXCEPT !.op = "delete_rule", !.rule = automation_id,
                              !.outcome = "ok"]
    /\ UNCHANGED <<rule_uuid, taskVars, schedVars, calVars, today, app_state, tmplVars, notifyVars, pomoVars>>

\* ---- clock and schedule notifications (main.py) --------------------------

\* The clock advances in ticks; a minute has TicksPerMinute of them, and the
\* model follows the first DayMinutes minutes of a day.
TicksPerMinute == 2
DayMinutes == 17
MaxBoxes == 2
MaxRepeats == 2

SCHEDULE_NOTIFY_WINDOWS == <<15, 5, 0>>

\* Time passes: one tick, or the change to the next day.
Tick ==
    /\ IF now_time + 1 < DayMinutes * TicksPerMinute
       THEN now_time' = now_time + 1 /\ UNCHANGED today
       ELSE today < MaxDate /\ now_time' = 0 /\ today' = today + 1
    /\ last' = [NoLast EXCEPT !.op = "tick"]
    /\ UNCHANGED <<taskVars, schedVars, autoVars, calVars, app_state, tmplVars,
                   current_app_date, notified_event_windows, notifications,
                   check_stack, pomoVars>>

\* MainWindow._update_date_time_label on a day that has rolled over; the
\* sets held by calls that wait in a message box are no longer in the dict.
UpdateDateTimeLabel ==
    /\ today # current_app_date
    /\ current_app_date' = today
    /\ notified_event_windows' = <<>>
    /\ check_stack' = [i \in DOMAIN check_stack |->
                          [check_stack[i] EXCEPT !.orphaned = TRUE]]
    /\ last' = [NoLast EXCEPT !.op = "update_date_time_label"]
    /\ UNCHANGED <<taskVars, schedVars, autoVars, calVars, today, app_state,
                   tmplVars, now_time, notifications, pomoVars>>

\* get_schedule_events_for_date: the ids of the events of a date, ORDER BY
\* start_time.
RECURSIVE EventsByStart(_, _)
EventsByStart(evs, S) ==
    IF S = {} THEN <<>>
    ELSE LET first == CHOOSE x \in S : \A y \in S :
                          \/ evs[x].start_time < evs[y].start_time
                          \/ evs[x].start_time = evs[y].start_time /\ x <= y
         IN  <<first>> \o EventsByStart(evs, S \ {first})

get_schedule_events_for_date(evs, date) ==
    EventsByStart(evs, {x \in DOMAIN evs : evs[x].date = date})

\* is_in_window: minutes_until_event lies in (window - 1, window], the times
\* being in ticks.
IsInWindow(window_minutes, start_time, current_time) ==
    LET ticks_until_event == start_time * TicksPerMinute - current_time
    IN  /\ (window_minutes - 1) * TicksPerMinute < ticks_until_event
        /\ ticks_until_event <= window_minutes * TicksPerMinute

\* dict.setdefault(event_id, set()).
SetDefault(dict, event_id) ==
    [x \in (DOMAIN dict) \cup {event_id} |->
        IF x \in DOMAIN dict THEN dict[x] ELSE {}]

\* sent_windows.add(window_minutes) on the set of event_id in the dict.
SentWindowsAdd(dict, event_id, window_minutes) ==
    [x \in DOMAIN dict |->
        IF x = event_id THEN dict[x] \cup {window_minutes} ELSE dict[x]]

\* One more notification for the event and the window on the application
\* day app_date.
Notified(log, app_date, event_id, window_minutes) ==
    LET key == <<app_date, event_id, window_minutes>>
    IN  [k \in (DOMAIN log) \cup {key} |->
            IF k = key THEN (IF key \in DOMAIN log THEN log[key] ELSE 0) + 1
            ELSE log[k]]

\* The loop "for event in events_today" of _check_schedule_notifications from
\* the event at the head of events on, with current_time as read at the start
\* of the call.  _show_notification returns at once when the tray icon is
\* visible; when it is not, it opens QMessageBox.information and the call
\* waits there, before sent_windows.add, until the box is dismissed.
RECURSIVE CheckEvents(_, _, _, _, _, _)
CheckEvents(events, current_time, visible, dict, log, app_date) ==
    IF events = <<>>
    THEN [dict |-> dict, log |-> log, waiting |-> <<>>]
    ELSE LET event_id == Head(events)
             sent == SetDefault(dict, event_id)
             due == {i \in 1..Len(SCHEDULE_NOTIFY_WINDOWS) :
                        /\ IsInWindow(SCHEDULE_NOTIFY_WINDOWS[i],
                                      schedule_events[event_id].start_time,
                                      current_time)
                        /\ SCHEDULE_NOTIFY_WINDOWS[i] \notin sent[event_id]}
         IN  IF due = {}
             THEN CheckEvents(Tail(events), current_time, visible, sent, log, app_date)
             ELSE LET window_minutes == SCHEDULE_NOTIFY_WINDOWS[CHOOSE i \in due : TRUE]
                      shown == Notified(log, app_date, event_id, window_minutes)
                  IN  IF visible
                      THEN CheckEvents(Tail(events), current_time, visible,
                               SentWindowsAdd(sent, event_id, window_minutes),
                               shown, app_date)
                      ELSE [dict |-> sent, log |-> shown,
                            waiting |-> <<[event |-> event_id,
                                           window |-> window_minutes,
                                           time |-> current_time,
                                           rest |-> Tail(events),
                                           orphaned |-> FALSE]>>]

\* No notification has been counted more than MaxRepeats times.
RepeatsBounded == \A k \in DOMAIN notifications : notifications[k] < MaxRepeats

\* MainWindow._check_schedule_notifications, called by the timer (also while
\* an earlier call waits in a message box, whose event loop runs the
\* timers); visible is what tray_icon.isVisible() answers.
CheckScheduleNotifications(visible) ==
    /\ Len(check_stack) < MaxBoxes
    /\ RepeatsBounded
    /\ \E r \in {CheckEvents(get_schedule_events_for_date(schedule_events, current_app_date),
                              now_time, visible, notified_event_windows,
                              notifications, current_app_date)} :
          /\ notified_event_windows' = r.dict
          /\ notifications' = r.log
          /\ check_stack' = check_stack \o r.waiting
          /\ last' = [NoLast EXCEPT !.op = "check_schedule_notifications",
                                    !.outcome = IF r.waiting # <<>> THEN "waiting"
                                                ELSE "done"]
    /\ UNCHANGED <<taskVars, schedVars, autoVars, calVars, today, app_state,
                   tmplVars, now_time, current_app_date, pomoVars>>

\* The message box of the innermost waiting call is dismissed: the call
\* records the window in the set it holds and goes on with the rest of its
\* events.
DismissNotification(visible) ==
    /\ check_stack # <<>>
    /\ RepeatsBounded
    /\ LET top == check_stack[Len(check_stack)]
           below == SubSeq(check_stack, 1, Len(check_stack) - 1)
           recorded == IF top.orphaned \/ top.event \notin DOMAIN notified_event_windows
                       THEN notified_event_windows
                       ELSE SentWindowsAdd(notified_event_windows, top.event, top.window)
       IN  \E r \in {CheckEvents(top.rest, top.time, visible, recorded,
                                  notifications, current_app_date)} :
              /\ notified_event_windows' = r.dict
              /\ notifications' = r.log
              /\ check_stack' = below \o r.waiting
              /\ last' = [NoLast EXCEPT !.op = "dismiss_notification",
                                        !.event = top.event]
    /\ UNCHANGED <<taskVars, schedVars, autoVars, calVars, today, app_state,
                   tmplVars, now_time, current_app_date, pomoVars>>

\* ---- Pomodoro timer (pomodoro_timer.py) and its settings -----------------

SecondsPerMinute == 60
MaxCycles == 4

DigitChars == <<"0", "1", "2", "3", "4", "5", "6", "7", "8", "9">>

IsDigit(c) == \E i \in 1..10 : DigitChars[i] = c

DigitValue(c) == (CHOOSE i \in 1..10 : DigitChars[i] = c) - 1

\* str(n) for n >= 0.
RECURSIVE StrOfInt(_)
StrOfInt(n) ==
    IF n < 10 THEN <<DigitChars[n + 1]>>
    ELSE StrOfInt(n \div 10) \o <<DigitChars[(n % 10) + 1]>>

\* The value of a text of digits.
RECURSIVE DigitsValue(_, _)
DigitsValue(text, acc) ==
    IF text = <<>> THEN acc
    ELSE DigitsValue(Tail(text), acc * 10 + DigitValue(Head(text)))

\* Whether int(text) succeeds: digits with an optional sign in front.
IsIntText(text) ==
    LET body == IF text # <<>> /\ Head(text) \in {"-", "+"} THEN Tail(text) ELSE text
    IN  body # <<>> /\ \A i \in 1..Len(body) : IsDigit(body[i])

\* int(text) where it succeeds.
IntOfText(text) ==
    IF Head(text) = "-" THEN 0 - DigitsValue(Tail(text), 0)
    ELSE IF Head(text) = "+" THEN DigitsValue(Tail(text), 0)
    ELSE DigitsValue(text, 0)

\* "int(get_app_state(key) or default)" of _load_settings_from_db, with the
\* default of its except branch when int fails.
LoadSetting(st, key, default) ==
    LET text == get_app_state(st, key)
    IN  IF text = <<>> THEN default
        ELSE IF IsIntText(text) THEN IntOfText(text)
        ELSE default

\* PomodoroTimerWidget._start_timer (the Start button, and the Yes answer of
\* the long-break prompt).
StartTimer ==
    /\ ~pomodoro_running /\ timer_seconds > 0
    /\ pomodoro_running' = TRUE
    /\ last' = [NoLast EXCEPT !.op = "start_timer"]
    /\ UNCHANGED <<timer_mode, timer_seconds, total_timer_seconds, pomodoro_cycles, break_cycles, settingVars>>
    /\ UNCHANGED <<taskVars, schedVars, autoVars, calVars, today, app_state, tmplVars, notifyVars>>

\* PomodoroTimerWidget._pause_timer (the Pause button).
PauseTimer ==
    /\ pomodoro_running
    /\ pomodoro_running' = FALSE
    /\ last' = [NoLast EXCEPT !.op = "pause_timer"]
    /\ UNCHANGED <<timer_mode, timer_seconds, total_timer_seconds, pomodoro_cycles, break_cycles, settingVars>>
    /\ UNCHANGED <<taskVars, schedVars, autoVars, calVars, today, app_state, tmplVars, notifyVars>>

\* PomodoroTimerWidget._reset_timer (the Reset button).
ResetTimer ==
    /\ pomodoro_running' = FALSE
    /\ timer_seconds' = total_timer_seconds
    /\ last' = [NoLast EXCEPT !.op = "reset_timer"]
    /\ UNCHANGED <<timer_mode, total_timer_seconds, pomodoro_cycles, break_cycles, settingVars>>
    /\ UNCHANGED <<taskVars, schedVars, autoVars, calVars, today, app_state, tmplVars, notifyVars>>

\* The minutes _set_timer_preset settles on for the text and the mode.
PresetMinutes(minutes_str, mode) ==
    LET default_minutes == IF mode = "Work" THEN work_minutes ELSE short_break_minutes
    IN  IF IsIntText(minutes_str) /\ IntOfText(minutes_str) > 0
        THEN IntOfText(minutes_str)
        ELSE default_minutes

\* PomodoroTimerWidget._set_timer_preset from the Work and Break buttons,
\* which are enabled while the timer is not running.
SetTimerPreset(minutes_str, mode) ==
    /\ ~pomodoro_running
    /\ timer_mode' = mode
    /\ timer_seconds' = PresetMinutes(minutes_str, mode) * SecondsPerMinute
    /\ total_timer_seconds' = PresetMinutes(minutes_str, mode) * SecondsPerMinute
    /\ last' = [NoLast EXCEPT !.op = "set_timer_preset"]
    /\ UNCHANGED <<pomodoro_running, pomodoro_cycles, break_cycles, settingVars>>
    /\ UNCHANGED <<taskVars, schedVars, autoVars, calVars, today, app_state, tmplVars, notifyVars>>

\* A variant that asks for the long break after every Work session.
LongBreakDue_Always(cycles, sessions) == TRUE

\* "self.pomodoro_cycles % self.sessions_before_long_break == 0".
LongBreakDue(cycles, sessions) == cycles % sessions = 0

\* PomodoroTimerWidget._countdown, called by the one-second timer, which is
\* active exactly while pomodoro_running; reply is the answer to the
\* long-break prompt when the call shows it.
Countdown(reply) ==
    /\ pomodoro_running
    /\ IF timer_seconds > 0
       THEN /\ timer_seconds' = timer_seconds - 1
            /\ last' = [NoLast EXCEPT !.op = "countdown", !.outcome = "tick"]
            /\ UNCHANGED <<pomodoro_running, timer_mode, total_timer_seconds, pomodoro_cycles, break_cycles>>
       ELSE IF timer_mode = "Work"
       THEN /\ pomodoro_cycles < MaxCycles
            /\ pomodoro_cycles' = pomodoro_cycles + 1
            /\ UNCHANGED break_cycles
            /\ IF LongBreakDue(pomodoro_cycles + 1, sessions_before_long_break)
               THEN /\ timer_mode' = IF reply = "Yes" THEN "Break" ELSE "Work"
                    /\ timer_seconds' = PresetMinutes(StrOfInt(IF reply = "Yes" THEN long_break_minutes ELSE work_minutes), timer_mode') * SecondsPerMinute
                    /\ total_timer_seconds' = timer_seconds'
                    /\ pomodoro_running' = (reply = "Yes" /\ timer_seconds' > 0)
                    /\ last' = [NoLast EXCEPT !.op = "countdown", !.prompt = TRUE,
                                              !.outcome = reply]
               ELSE /\ timer_mode' = "Break"
                    /\ timer_seconds' = PresetMinutes(StrOfInt(short_break_minutes), "Break") * SecondsPerMinute
                    /\ total_timer_seconds' = timer_seconds'
                    /\ pomodoro_running' = FALSE
                    /\ last' = [NoLast EXCEPT !.op = "countdown",
                                              !.outcome = "short break"]
       ELSE /\ break_cycles < MaxCycles
            /\ break_cycles' = break_cycles + 1
            /\ UNCHANGED pomodoro_cycles
            /\ timer_mode' = "Work"
            /\ timer_seconds' = PresetMinutes(StrOfInt(work_minutes), "Work") * SecondsPerMinute
            /\ total_timer_seconds' = timer_seconds'
            /\ pomodoro_running' = FALSE
            /\ last' = [NoLast EXCEPT !.op = "countdown", !.outcome = "work"]
    /\ UNCHANGED settingVars
    /\ UNCHANGED <<taskVars, schedVars, autoVars, calVars, today, app_state, tmplVars, notifyVars>>

\* PomodoroSettingsDialog._save_pomodoro_settings with the values of the
\* four spin boxes, followed by reload_settings_and_reset_timer.
SavePomodoroSettings(work, short_break, long_break, sessions) ==
    /\ work \in 1..120 /\ short_break \in 1..30
    /\ long_break \in 1..60 /\ sessions \in 2..10
    /\ \E st \in {set_app_state(set_app_state(set_app_state(set_app_state(app_state,
                      "pomodoro_work_min", StrOfInt(work)),
                      "pomodoro_short_break_min", StrOfInt(short_break)),
                      "pomodoro_long_break_min", StrOfInt(long_break)),
                      "pomodoro_sessions", StrOfInt(sessions))} :
          /\ app_state' = st
          /\ work_minutes' = LoadSetting(st, "pomodoro_work_min", 25)
          /\ short_break_minutes' = LoadSetting(st, "pomodoro_short_break_min", 5)
          /\ long_break_minutes' = LoadSetting(st, "pomodoro_long_break_min", 15)
          /\ sessions_before_long_break' = LoadSetting(st, "pomodoro_sessions", 4)
    /\ pomodoro_running' = FALSE
    /\ timer_mode' = "Work"
    /\ timer_seconds' = work_minutes' * SecondsPerMinute
    /\ total_timer_seconds' = work_minutes' * SecondsPerMinute
    /\ last' = [NoLast EXCEPT !.op = "save_pomodoro_settings"]
    /\ UNCHANGED <<pomodoro_cycles, break_cycles>>
    /\ UNCHANGED <<taskVars, schedVars, autoVars, calVars, today, tmplVars, notifyVars>>

\* ---- specifications -----------------------------------------------------

Init ==
    /\ tasks = <<>>
    /\ task_uuid = 0
    /\ show_dates = {}
    /\ completion_log = {}
    /\ dependencies = {}
    /\ schedule_events = <<>>
    /\ event_uuid = 0
    /\ automations = <<>>
    /\ rule_uuid = 0
    /\ calendar_events = <<>>
    /\ cal_uuid = 0
    /\ today = 1
    /\ app_state = InitialAppState
    /\ templates = <<>>
    /\ template_uuid = 0
    /\ now_time = 0
    /\ current_app_date = today
    /\ notified_event_windows = <<>>
    /\ notifications = <<>>
    /\ check_stack = <<>>
    /\ work_minutes = LoadSetting(InitialAppState, "pomodoro_work_min", 25)
    /\ short_break_minutes = LoadSetting(InitialAppState, "pomodoro_short_break_min", 5)
    /\ long_break_minutes = LoadSetting(InitialAppState, "pomodoro_long_break_min", 15)
    /\ sessions_before_long_break = LoadSetting(InitialAppState, "pomodoro_sessions", 4)
    /\ pomodoro_running = FALSE
    /\ timer_mode = "Work"
    /\ timer_seconds = work_minutes * SecondsPerMinute
    /\ total_timer_seconds = work_minutes * SecondsPerMinute
    /\ pomodoro_cycles = 0
    /\ break_cycles = 0
    /\ last = NoLast

\* Midnight passes: datetime.now() moves to the next day.
NextDay ==
    /\ today < MaxDate
    /\ today' = today + 1
    /\ last' = [NoLast EXCEPT !.op = "next_day", !.outcome = "ok"]
    /\ UNCHANGED <<taskVars, schedVars, autoVars, calVars, app_state, tmplVars, notifyVars, pomoVars>>

\* The application stays closed through the rest of the month: the current
\* date moves on by the 31 days of January.
MonthLater ==
    /\ today + 31 <= MaxToday
    /\ today' = today + 31
    /\ last' = [NoLast EXCEPT !.op = "month_later", !.outcome = "ok"]
    /\ UNCHANGED <<taskVars, schedVars, autoVars, calVars, app_state, tmplVars, notifyVars, pomoVars>>

DeadlineChoices == {NULL} \cup Dates
ShowModes == {"auto", "always_pending"}
TaskIds == 1..MaxTasks

\* The task graph: creation, completion on both tabs, dependencies, deletion.
NextTasks ==
    \/ \E dl \in DeadlineChoices : AddTask("a", dl)
    \/ \E p \in TaskIds : AddSubTask(p, "a")
    \/ \E t \in TaskIds, d \in TaskIds : AddDependency(t, d)
    \/ \E t \in TaskIds, d \in TaskIds : RemoveDependency(t, d)
    \/ \E t \in TaskIds : HandleTaskStatusChange(t)
    \/ \E t \in TaskIds : HandleTaskDelete(t)
    \/ \E t \in TaskIds, d \in Dates : HandleTodayTaskCompletion(t, d)

SpecTasks == Init /\ [][NextTasks]_vars

\* Recurring tasks: show dates, always-pending tasks, per-date completion.
NextRecur ==
    \/ \E dl \in DeadlineChoices : task_uuid < MaxRecurTasks /\ AddTask("a", dl)
    \/ \E t \in TaskIds, sm \in ShowModes :
          SaveDetails(t, tasks[t].description, tasks[t].deadline, sm)
    \/ \E t \in TaskIds, d \in Dates : ToggleShowDate(t, d)
    \/ \E t \in TaskIds : HandleTaskStatusChange(t)
    \/ \E t \in TaskIds, d \in Dates : HandleTodayTaskCompletion(t, d)
    \/ NextDay

SpecRecur == Init /\ [][NextRecur]_vars

\* Deletion: tasks with sub-tasks, show dates, logged completions and
\* dependency edges are built up and deleted.
NextDelete ==
    \/ AddTask("a", NULL)
    \/ \E p \in TaskIds : AddSubTask(p, "a")
    \/ \E t \in TaskIds, d \in Dates : ToggleShowDate(t, d)
    \/ \E t \in TaskIds, d \in TaskIds : AddDependency(t, d)
    \/ \E t \in TaskIds, d \in Dates : HandleTodayTaskCompletion(t, d)
    \/ \E t \in TaskIds : HandleTaskDelete(t)

SpecDelete == Init /\ [][NextDelete]_vars

\* ---- inputs of the automation specifications ----------------------------

TitleLate == <<"L", "S">>
TitleLateLower == <<"l", "s">>
TitleGym == <<"G">>
Titles == {TitleLate, TitleLateLower, TitleGym}

\* Day masks: bit i is weekday i, Monday being bit 0 (DAY_FLAGS).
MaskMonday == 1
MaskAnyDay == 127
Masks == {0, MaskMonday, MaskAnyDay}

TaskAction(desc) ==
    [action_type |-> "ensure_task_link", param1 |-> desc,
     param2 |-> "High", param3 |-> "Work"]

ScheduleAction(title, start_time, end_time) ==
    [action_type |-> "create_schedule_block", param1 |-> title,
     param2 |-> start_time, param3 |-> end_time]

ActionLists ==
    {<<TaskAction("a"), ScheduleAction("Dispatch", 14, 15)>>,
     <<TaskAction("a"), TaskAction("b"),
       ScheduleAction("Dispatch", 14, 15), ScheduleAction("Review", 16, 17)>>}

RuleIds == 1..MaxRules
RuleNames == {1, 2}
Ties == {"first", "last"}

\* The automation engine: one rule is saved, calendar events are added, and
\* the tasks it made are completed or renamed in the Task Manager.
NextAuto ==
    \/ \E m \in Masks \ {0}, al \in ActionLists :
          rule_uuid < MaxAutoRules /\ SaveRule(NULL, 1, TitleLate, m, al)
    \/ \E title \in {TitleLate, TitleLateLower, <<>>}, d \in Dates, tie \in Ties :
          AddCalendarEvent(title, d, tie)
    \/ \E t \in TaskIds : HandleTaskStatusChange(t)
    \/ \E t \in TaskIds, desc \in Descs :
          SaveDetails(t, desc, tasks[t].deadline, tasks[t].show_mode)

SpecAuto == Init /\ [][NextAuto]_vars

\* The rule store: rules are saved, edited and deleted, events are added.
NextRules ==
    \/ \E n \in RuleNames \cup {NULL}, title \in Titles \cup {<<>>}, m \in Masks,
          al \in ActionLists \cup {<<>>} : SaveRule(NULL, n, title, m, al)
    \/ \E r \in RuleIds, n \in RuleNames, title \in Titles, m \in Masks,
          al \in ActionLists : SaveRule(r, n, title, m, al)
    \/ \E r \in RuleIds : DeleteRule(r)

SpecRules == Init /\ [][NextRules]_vars

\* The startup sweep: one rule is saved, calendar events are added for the
\* current date and for dates to come, days and a month pass, and the
\* application is started.
SweepDates == Dates \cup {d + 31 : d \in Dates}

NextSweep ==
    \/ \E al \in ActionLists :
          rule_uuid < MaxAutoRules /\ SaveRule(NULL, 1, TitleLate, MaskAnyDay, al)
    \/ \E d \in SweepDates, tie \in Ties :
          d >= today /\ AddCalendarEvent(TitleLate, d, tie)
    \/ \E tie \in Ties : RunStartupAutomations(tie)
    \/ NextDay
    \/ MonthLater

SpecSweep == Init /\ [][NextSweep]_vars

\* Runs on a store that may refuse one write: one rule is saved and calendar
\* events are added, the store refusing none or one of the writes of each
\* run.
NextFail ==
    \/ \E al \in ActionLists :
          rule_uuid < MaxAutoRules /\ SaveRule(NULL, 1, TitleLate, MaskAnyDay, al)
    \/ \E d \in Dates, tie \in Ties, fail \in 0..MaxFail :
          AddCalendarEventFailing(TitleLate, d, tie, fail)
    \/ \E t \in TaskIds : HandleTaskStatusChange(t)

SpecFail == Init /\ [][NextFail]_vars

\* Schedule blocks and their tasks: one rule is saved, calendar events are
\* added, tasks are completed, and schedule events are deleted from the
\* schedule event dialog.
NextSched ==
    \/ \E al \in ActionLists :
          rule_uuid < MaxAutoRules /\ SaveRule(NULL, 1, TitleLate, MaskAnyDay, al)
    \/ \E d \in Dates, tie \in Ties : AddCalendarEvent(TitleLate, d, tie)
    \/ \E t \in TaskIds : HandleTaskStatusChange(t)
    \/ \E ev \in 1..MaxEvents : DeleteScheduleEvent(ev)

SpecSched == Init /\ [][NextSched]_vars

\* Runs over rule stores as the automation tables admit them: no rule, a
\* rule without action rows, and rules whose actions lack a parameter
\* (param1, param2 and param3 are nullable columns), next to complete rules.
RunActionLists ==
    {<<>>,
     <<TaskAction("")>>,
     <<ScheduleAction("", 14, 15)>>,
     <<ScheduleAction("Dispatch", NULL, 15)>>,
     <<TaskAction(""), ScheduleAction("Dispatch", 14, NULL)>>,
     <<TaskAction("a"), ScheduleAction("", 14, 15)>>,
     <<TaskAction(""), ScheduleAction("Dispatch", 14, 15)>>,
     <<TaskAction("a"), ScheduleAction("Dispatch", 14, 15)>>}

RunRuleStores ==
    {<<>>} \cup
    {<<[rule_name |-> 1, trigger_title |-> TitleLate,
        trigger_day_of_week |-> MaskAnyDay, actions |-> al]>> :
            al \in RunActionLists}

InitRun ==
    /\ tasks = <<>>
    /\ task_uuid = 0
    /\ show_dates = {}
    /\ completion_log = {}
    /\ dependencies = {}
    /\ schedule_events = <<>>
    /\ event_uuid = 0
    /\ automations \in RunRuleStores
    /\ rule_uuid = Len(automations)
    /\ calendar_events = <<>>
    /\ cal_uuid = 0
    /\ today = 1
    /\ app_state = InitialAppState
    /\ templates = <<>>
    /\ template_uuid = 0
    /\ now_time = 0
    /\ current_app_date = today
    /\ notified_event_windows = <<>>
    /\ notifications = <<>>
    /\ check_stack = <<>>
    /\ work_minutes = LoadSetting(InitialAppState, "pomodoro_work_min", 25)
    /\ short_break_minutes = LoadSetting(InitialAppState, "pomodoro_short_break_min", 5)
    /\ long_break_minutes = LoadSetting(InitialAppState, "pomodoro_long_break_min", 15)
    /\ sessions_before_long_break = LoadSetting(InitialAppState, "pomodoro_sessions", 4)
    /\ pomodoro_running = FALSE
    /\ timer_mode = "Work"
    /\ timer_seconds = work_minutes * SecondsPerMinute
    /\ total_timer_seconds = work_minutes * SecondsPerMinute
    /\ pomodoro_cycles = 0
    /\ break_cycles = 0
    /\ last = NoLast

MaxRunFail == 3

NextRun ==
    \/ \E title \in {TitleLate, TitleGym, <<>>}, d \in Dates, tie \in Ties, fail \in 0..MaxRunFail :
          AddCalendarEventFailing(title, d, tie, fail)
    \/ \E t \in TaskIds : HandleTaskStatusChange(t)

SpecRun == InitRun /\ [][NextRun]_vars

\* Schedule blocks from every source: the rule dialog builds its schedule
\* action from the form of the action dialog, runs create blocks (the store
\* refusing none or one write), and blocks are saved, edited and deleted in
\* the schedule event dialog.
DialogTimes == {14, 15}

DialogActionLists ==
    {AddScheduleActionTo(<<TaskAction("a")>>, ScheduleActionDialog_get_data(ti, st, en)) :
        ti \in {"", "Dispatch"}, st \in DialogTimes, en \in DialogTimes}

NextEvents ==
    \/ \E al \in DialogActionLists :
          rule_uuid < MaxAutoRules /\ SaveRule(NULL, 1, TitleLate, MaskAnyDay, al)
    \/ \E tie \in Ties : AddCalendarEvent(TitleLate, 1, tie)
    \/ \E ev \in {NULL} \cup (1..MaxEvents), ti \in {"", "Block"}, st \in DialogTimes, en \in DialogTimes :
          SaveScheduleEvent(ev, 1, ti, st, en, {}, 0)
    \/ \E ev \in 1..MaxEvents : DeleteScheduleEvent(ev)

SpecEvents == Init /\ [][NextEvents]_vars

\* Links between tasks and schedule blocks: runs link the tasks they ensured
\* to the blocks they created, the schedule event dialog links and unlinks
\* the ticked tasks and deletes blocks; the store may refuse one write of a
\* run or of a save.
MaxLinkRuns == 2

NextLinks ==
    \/ /\ rule_uuid < MaxAutoRules
       /\ SaveRule(NULL, 1, TitleLate, MaskAnyDay, <<TaskAction("a"), ScheduleAction("Dispatch", 14, 15)>>)
    \/ \E fail \in 0..MaxRunFail :
          cal_uuid < MaxLinkRuns /\ AddCalendarEventFailing(TitleLate, 1, "first", fail)
    \/ \E ev \in {NULL} \cup (1..MaxEvents), checked \in SUBSET TaskIds, fail \in 0..MaxRunFail :
          SaveScheduleEvent(ev, 1, "Block", 14, 15, checked, fail)
    \/ \E ev \in 1..MaxEvents : DeleteScheduleEvent(ev)
    \/ \E t \in TaskIds : HandleTaskStatusChange(t)

SpecLinks == Init /\ [][NextLinks]_vars

\* Saving rules on a store that may refuse a write: rules are created,
\* edited and deleted.
NextRuleSave ==
    \/ \E id \in {NULL} \cup RuleIds, n \in RuleNames, ti \in {TitleLate, TitleGym}, al \in ActionLists, fail \in 0..MaxRunFail :
          SaveRuleFailing(id, n, ti, MaskAnyDay, al, fail)
    \/ \E id \in RuleIds : DeleteRule(id)

SpecRuleSave == Init /\ [][NextRuleSave]_vars

MaxNotifyEvents == 2
NotifyTimes == {15}

\* Notifications: blocks are saved, edited and deleted in the schedule event
\* dialog while no message box is open, time passes, the label timer and the
\* notification timer fire.
NextNotify ==
    \/ \E ev \in {NULL} \cup (1..MaxNotifyEvents), d \in Dates, st \in NotifyTimes :
          /\ check_stack = <<>>
          /\ event_uuid < MaxNotifyEvents \/ ev # NULL
          /\ SaveScheduleEvent(ev, d, "Block", st, st + 1, {}, 0)
    \/ \E ev \in 1..MaxNotifyEvents : check_stack = <<>> /\ DeleteScheduleEvent(ev)
    \/ Tick
    \/ UpdateDateTimeLabel
    \/ \E visible \in BOOLEAN : CheckScheduleNotifications(visible)
    \/ \E visible \in BOOLEAN : DismissNotification(visible)

SpecNotify == Init /\ [][NextNotify]_vars

\* The Pomodoro timer: its buttons, its one-second timer and the settings
\* dialog; the minutes entry holds one of EntryTexts.
EntryTexts == {<<>>, <<"0">>, <<"1">>, <<"-", "1">>, <<"x">>}

NextPomodoro ==
    \/ StartTimer
    \/ PauseTimer
    \/ ResetTimer
    \/ \E text \in EntryTexts, mode \in {"Work", "Break"} : SetTimerPreset(text, mode)
    \/ \E reply \in {"Yes", "No"} : Countdown(reply)
    \/ \E sessions \in {2, 3} : SavePomodoroSettings(1, 1, 2, sessions)

SpecPomodoro == Init /\ [][NextPomodoro]_vars

\* Rules that go away: rules are saved and deleted, calendar events run
\* them, and the tasks they made are ticked on the Today dashboard.
NextRuleDelete ==
    \/ \E ti \in {TitleLate, TitleGym}, al \in ActionLists : SaveRule(NULL, 1, ti, MaskAnyDay, al)
    \/ \E ti \in {TitleLate, TitleGym}, tie \in Ties : AddCalendarEvent(ti, 1, tie)
    \/ \E r \in RuleIds : DeleteRule(r)
    \/ \E t \in TaskIds : HandleTodayTaskCompletion(t, 1)

SpecRuleDelete == Init /\ [][NextRuleDelete]_vars

\* Templates: templates of a parent row and up to two sub-task rows are
\* saved and instantiated next to tasks added and completed by hand.
TemplateRowLists ==
    {<<>>} \cup
    {<<TemplateRow("a", "High", FALSE)>> \o subs :
        subs \in UNION {[1..n -> {TemplateRow("b", "Low", TRUE)}] :
                           n \in 0..(MaxTemplateRows - 1)}}

NextTemplates ==
    \/ \E name \in {"", "t"}, rows \in TemplateRowLists :
          SaveTemplate(name, "Work", rows)
    \/ \E tpl \in 1..MaxTemplates : InstantiateTemplate(tpl)
    \/ \E dl \in DeadlineChoices : AddTask("a", dl)
    \/ \E t \in TaskIds : HandleTaskStatusChange(t)

SpecTemplates == Init /\ [][NextTemplates]_vars

\* ---- C1: a blocked task cannot be completed ------------------------------

\* The last handler was an attempt to complete a non-recurring task.
CompletionAttempt ==
    /\ last.op \in {"task_status_change", "today_completion"}
    /\ last.checked
    /\ ~last.recurring
    /\ last.task \in DOMAIN tasks

\* The task the last handler acted on has a pending sub-task or a pending
\* prerequisite (the handler changes neither, so this is as it was before).
LastTaskBlocked ==
    \/ \E s \in DOMAIN tasks :
          tasks[s].parent_task_id = last.task /\ tasks[s].status = "pending"
    \/ \E e \in dependencies :
          e[1] = last.task /\ e[2] \in DOMAIN tasks /\ tasks[e[2]].status = "pending"

\* C1: every attempt to complete a task that has a pending sub-task or a
\* pending prerequisite is rejected and leaves the task pending, on the Task
\* Manager handler and on the Today handler for non-recurring tasks.
C1_BlockedCompletionRejected ==
    (CompletionAttempt /\ LastTaskBlocked) =>
        (last.outcome = "blocked" /\ tasks[last.task].status = "pending")

\* ---- C2: a second run reuses the tasks of the first ----------------------

\* The descriptions of the ensure_task_link actions of a rule.
TaskDescriptions(rule) ==
    {rule.actions[i].param1 :
        i \in {j \in 1..Len(rule.actions) : IsTaskAction(rule.actions[j])}}

\* The tasks that carry the id of the rule and the description.
TasksCarrying(automation_id, desc) ==
    {t \in DOMAIN tasks :
        /\ tasks[t].created_by_automation_id = automation_id
        /\ tasks[t].description = desc}

\* C2, as stated: after the second of two consecutive runs for the same
\* (title, date) exactly one task per task-action description carries the id
\* of the rule, and the second run created no task.
C2_ExactlyOneTaskPerDescription ==
    (last.op = "add_calendar_event" /\ last.repeat
        /\ last.rule \in DOMAIN automations) =>
        /\ last.new_task_ids = {}
        /\ \A desc \in TaskDescriptions(automations[last.rule]) :
               Cardinality(TasksCarrying(last.rule, desc)) = 1

\* C2, amended: the second of two consecutive runs of a rule for the same
\* (title, date) creates no task; each of its task actions reuses a pending
\* task that carries the id of the rule and the description of the action.
C2_SecondRunReuses ==
    [][(/\ last.op = "add_calendar_event" /\ last.ret
        /\ last'.op = "add_calendar_event"
        /\ last'.title = last.title /\ last'.date = last.date
        /\ last'.rule = last.rule /\ last'.rule \in DOMAIN automations)
       =>
       /\ DOMAIN tasks' = DOMAIN tasks
       /\ \A desc \in TaskDescriptions(automations[last'.rule]) :
             \E i \in 1..Len(last'.created_task_ids) :
                LET t == last'.created_task_ids[i]
                IN  /\ t \in DOMAIN tasks
                    /\ tasks[t].status = "pending"
                    /\ tasks[t].created_by_automation_id = last'.rule
                    /\ tasks[t].description = desc
    ]_vars

\* A second run in a row reused a task while a completed task of an earlier
\* run still carries the id of the rule and the same description.
C2_Witness ==
    /\ last.op = "add_calendar_event" /\ last.repeat /\ last.ret
    /\ last.new_task_ids = {}
    /\ last.created_task_ids # <<>>
    /\ \E t \in DOMAIN tasks, u \in DOMAIN tasks :
          /\ t # u
          /\ tasks[t].created_by_automation_id = last.rule
          /\ tasks[u].created_by_automation_id = last.rule
          /\ tasks[t].description = tasks[u].description
          /\ tasks[t].status = "completed" /\ tasks[u].status = "pending"

\* ---- C3: every run creates its schedule blocks again ---------------------

\* C3: a run of a matching rule adds one new schedule event per
\* create_schedule_block action of the rule, with the action's title and
\* times on the date of the event, whatever blocks exist already, and
\* leaves the existing blocks as they are.
C3_OneNewBlockPerRun ==
    [][(last'.op = "add_calendar_event" /\ last'.rule \in DOMAIN automations)
       =>
       LET acts == SelectSeq(automations[last'.rule].actions, IsScheduleAction)
           new == (DOMAIN schedule_events') \ (DOMAIN schedule_events)
       IN  /\ Cardinality(new) = Len(acts)
           /\ Len(last'.created_event_ids) = Len(acts)
           /\ \A i \in 1..Len(acts) :
                 LET e == last'.created_event_ids[i]
                 IN  /\ e \in new
                     /\ schedule_events'[e].title = acts[i].param1
                     /\ schedule_events'[e].start_time = acts[i].param2
                     /\ schedule_events'[e].end_time = acts[i].param3
                     /\ schedule_events'[e].date = last'.date
           /\ \A e \in DOMAIN schedule_events :
                 e \in DOMAIN schedule_events'
                 /\ schedule_events'[e] = schedule_events[e]
    ]_vars

\* A run has just created a block identical to one that was there before.
C3_Witness ==
    /\ last.op = "add_calendar_event" /\ last.ret
    /\ \E i \in 1..Len(last.created_event_ids) :
          \E x \in DOMAIN schedule_events :
             /\ x # last.created_event_ids[i]
             /\ x \notin {last.created_event_ids[j] :
                             j \in 1..Len(last.created_event_ids)}
             /\ schedule_events[x] = schedule_events[last.created_event_ids[i]]

\* ---- C5: the day-of-week mask --------------------------------------------

\* Day 1 is a Monday; weekdays count from Monday = 0.
Weekday(date) == (date - 1) % 7

\* Bit wd of the mask is set.
MaskHasDay(mask, wd) == (mask \div (2 ^ wd)) % 2 = 1

C6_FullCrossProduct ==
    (last.op = "add_calendar_event" /\ last.ret) =>
        \A i \in 1..Len(last.created_task_ids) :
            \A j \in 1..Len(last.created_event_ids) :
                /\ last.created_task_ids[i] \in DOMAIN tasks
                /\ tasks[last.created_task_ids[i]].schedule_event_id
                      = last.created_event_ids[j]

\* ---- C7: trigger titles unique ignoring case -----------------------------

\* C7: no two stored rules have trigger titles that are equal when case is
\* ignored.
C7_TriggerTitleUniqueIgnoringCase ==
    \A r \in DOMAIN automations, q \in DOMAIN automations :
        r # q => Lower(automations[r].trigger_title)
                    # Lower(automations[q].trigger_title)

\* ---- C8: dependencies that are refused -----------------------------------

\* C8: no dependency edge (task, depends_on) is stored where depends_on is
\* the task itself, a sub-task of the task, or the parent of the task.
C8_NoSelfOrFamilyDependency ==
    \A e \in dependencies :
        (e[1] \in DOMAIN tasks /\ e[2] \in DOMAIN tasks) =>
            /\ e[2] # e[1]
            /\ tasks[e[2]].parent_task_id # e[1]
            /\ tasks[e[1]].parent_task_id # e[2]

\* ---- C10: a completed task has no pending sub-task -----------------------

\* C10: in every reachable state a completed task has no pending sub-task.
C10_CompletedHasNoPendingSubTask ==
    \A t \in DOMAIN tasks :
        tasks[t].status = "completed" =>
            \A s \in DOMAIN tasks :
                tasks[s].parent_task_id = t => tasks[s].status # "pending"

\* ---- C4: deleting a task -------------------------------------------------

\* t is p or lies below p in the sub-task hierarchy.
RECURSIVE IsUnder(_, _, _)
IsUnder(ts, t, p) ==
    \/ t = p
    \/ /\ ts[t].parent_task_id \in DOMAIN ts
       /\ IsUnder(ts, ts[t].parent_task_id, p)

\* C4: deleting task P removes exactly P and the sub-tasks below it, every
\* show date and completion log row of a removed task, and every dependency
\* edge with a removed task at either end; nothing else is removed.
C4_DeleteCascades ==
    [][last'.op = "delete_task" =>
        LET P == last'.task
            Sub == {t \in DOMAIN tasks : IsUnder(tasks, t, P)}
        IN  /\ P \in DOMAIN tasks
            /\ DOMAIN tasks' = (DOMAIN tasks) \ Sub
            /\ \A t \in DOMAIN tasks' : tasks'[t] = tasks[t]
            /\ show_dates' = {r \in show_dates : r[1] \notin Sub}
            /\ completion_log' = {r \in completion_log : r[1] \notin Sub}
            /\ dependencies' =
                  {e \in dependencies : e[1] \notin Sub /\ e[2] \notin Sub}
    ]_vars

\* A task with a sub-task was deleted, show dates, logged completions and
\* dependency edges went with it, and another task is still there.
C4_Witness ==
    /\ last.op = "delete_task"
    /\ Cardinality(last.gone) >= 2
    /\ \A i \in 1..3 : last.dropped[i] >= 1
    /\ DOMAIN tasks # {}

\* ---- C9: completing an occurrence of a recurring task --------------------

Range(seq) == {seq[i] : i \in 1..Len(seq)}

\* No element occurs twice in the list.
NoRepeats(seq) == \A i \in 1..Len(seq), j \in 1..Len(seq) : seq[i] = seq[j] => i = j

\* C11, as stated: the tasks due on d are the tasks whose deadline is d, the
\* tasks with a show date d and the pending always-pending tasks, each once.
C11_DueSetIsUnion ==
    \A d \in Dates :
        /\ Range(all_today_tasks(tasks, show_dates, d))
              = {t \in DOMAIN tasks : tasks[t].deadline = d}
                \cup {t \in DOMAIN tasks : <<t, d>> \in show_dates}
                \cup {t \in DOMAIN tasks : tasks[t].show_mode = "always_pending"
                                           /\ tasks[t].status = "pending"}
        /\ NoRepeats(all_today_tasks(tasks, show_dates, d))

\* C11, amended: the tasks due on d are the pending tasks whose deadline is
\* d, the tasks with a show date d whatever their status, and the pending
\* always-pending tasks; each task id appears once.
C11_DueSetIsUnionOfPendingDeadlines ==
    \A d \in Dates :
        /\ Range(all_today_tasks(tasks, show_dates, d))
              = {t \in DOMAIN tasks : tasks[t].deadline = d
                                      /\ tasks[t].status = "pending"}
                \cup {t \in DOMAIN tasks : <<t, d>> \in show_dates}
                \cup {t \in DOMAIN tasks : tasks[t].show_mode = "always_pending"
                                           /\ tasks[t].status = "pending"}
        /\ NoRepeats(all_today_tasks(tasks, show_dates, d))

\* A task is in all three lists of one date and is due once, while a
\* completed task whose deadline is that date is not due.
C11_Witness ==
    \E d \in Dates, t \in DOMAIN tasks, u \in DOMAIN tasks :
        /\ tasks[t].deadline = d /\ tasks[t].status = "pending"
        /\ <<t, d>> \in show_dates
        /\ tasks[t].show_mode = "always_pending"
        /\ Len(today_task_rows(tasks, show_dates, d)) >= 3
        /\ t \in Range(all_today_tasks(tasks, show_dates, d))
        /\ tasks[u].deadline = d /\ tasks[u].status = "completed"
        /\ u \notin Range(all_today_tasks(tasks, show_dates, d))


\* ---- C12: the startup sweep looks at the events of today ------------------

\* C12: a startup sweep that is not skipped evaluates the rules against every
\* calendar event whose date is the current date (year, month and day),
\* whatever the current date is.
C12_SweepEvaluatesTodaysEvents ==
    (last.op = "startup_sweep" /\ last.outcome # "skipped") =>
        last.events = {x \in DOMAIN calendar_events :
                          calendar_events[x].date = last.date}

\* ---- C13: one sweep a day -------------------------------------------------

\* C13: a startup sweep that follows a completed sweep of the same day runs
\* no action and changes nothing in the store, and a startup sweep that is
\* the first since the date changed is not skipped.
C13_OneSweepPerDay ==
    [][last'.op = "startup_sweep" =>
          /\ (last.op = "startup_sweep" /\ last.outcome # "skipped") =>
                 /\ last'.outcome = "skipped"
                 /\ UNCHANGED <<taskVars, schedVars, autoVars, calVars, app_state, tmplVars>>
          /\ last.op \in {"next_day", "month_later"} =>
                 last'.outcome # "skipped"]_vars


\* ---- C14: the writes of a run are all or nothing --------------------------

\* C14: when a write of a rule execution fails, none of the writes of that
\* execution remains: no task, ShowDate, schedule block or link of the run
\* is in the store.
C14_FailedRunLeavesNothing ==
    [][(last'.op = "add_calendar_event" /\ last'.failed) =>
          UNCHANGED <<tasks, show_dates, schedule_events>>]_vars

\* ---- C15: a failed write is reported --------------------------------------

\* C15: a run in which a write failed does not answer its caller as a run
\* that succeeded does: it does not return True.
C15_FailedRunNotReportedAsSuccess ==
    (last.op = "add_calendar_event" /\ last.failed) => ~last.ret


\* ---- C16: deleting a schedule event ---------------------------------------

\* C16: deleting a schedule event deletes no task: every task that was linked
\* to the event is still there with no link and its other fields as they
\* were, and every other task, linked to another event or to none, is as it
\* was.
C16_DeleteEventKeepsTasks ==
    [][last'.op = "delete_schedule_event" =>
          /\ DOMAIN tasks' = DOMAIN tasks
          /\ \A t \in DOMAIN tasks :
                tasks'[t] =
                    IF tasks[t].schedule_event_id = last'.event
                    THEN [tasks[t] EXCEPT !.schedule_event_id = NULL]
                    ELSE tasks[t]
          /\ UNCHANGED <<show_dates, completion_log, dependencies>>]_vars

\* An event with a linked task has been deleted while another task is
\* linked to another event.
C16_Witness ==
    /\ last.op = "delete_schedule_event"
    /\ last.unlinked # {}
    /\ \A t \in last.unlinked : tasks[t].schedule_event_id = NULL
    /\ \E t \in DOMAIN tasks :
          /\ tasks[t].schedule_event_id \in DOMAIN schedule_events
          /\ tasks[t].schedule_event_id # last.event


\* ---- C17: top-level queries --------------------------------------------------

\* C17: the top-level query returns no task that has a parent, whether it is
\* asked for the pending or for the completed tasks.
C17_TopLevelQueryHasNoSubTask ==
    \A status \in {"pending", "completed"} :
        \A t \in get_tasks(tasks, status) : tasks[t].parent_task_id = NULL

\* The store holds a pending and a completed sub-task next to the top-level
\* task the query returns.
C17_Witness ==
    /\ get_tasks(tasks, "pending") # {}
    /\ \E t \in DOMAIN tasks :
          tasks[t].parent_task_id # NULL /\ tasks[t].status = "pending"
    /\ \E t \in DOMAIN tasks :
          tasks[t].parent_task_id # NULL /\ tasks[t].status = "completed"


\* ---- C18: instantiating a template ---------------------------------------

\* C18: instantiating a template of one parent row and n sub-task rows makes
\* exactly n + 1 new tasks, one of them top-level and the n others its
\* sub-tasks; the template stays as it was and no task that existed is
\* modified.
C18_TemplateMakesParentAndSubTasks ==
    [][(last'.op = "instantiate_template" /\ last'.outcome = "ok") =>
          LET n == Len(templates[last'.template].tasks) - 1
              new == (DOMAIN tasks') \ (DOMAIN tasks)
          IN  /\ Cardinality(new) = n + 1
              /\ \E p \in new :
                    /\ tasks'[p].parent_task_id = NULL
                    /\ \A c \in new \ {p} : tasks'[c].parent_task_id = p
              /\ templates' = templates
              /\ \A t \in DOMAIN tasks : tasks'[t] = tasks[t]]_vars

\* A template with sub-task rows has been instantiated into a store that
\* held a task already.
C18_Witness ==
    /\ last.op = "instantiate_template"
    /\ last.outcome = "ok"
    /\ Cardinality(last.new_task_ids) >= 2
    /\ (DOMAIN tasks) \ last.new_task_ids # {}
    /\ \A c \in last.new_task_ids \ {last.task} :
          tasks[c].parent_task_id = last.task


\* ---- C19: cycles of dependencies ------------------------------------------

\* Task a is on a cycle of three dependency edges: a depends on b, b on c
\* and c on a.
OnTransitiveCycle(deps, a) ==
    \E b, c \in {e[1] : e \in deps} :
        /\ a # b /\ b # c /\ a # c
        /\ <<a, b>> \in deps /\ <<b, c>> \in deps /\ <<c, a>> \in deps

C19_CycleReached ==
    /\ last.op = "add_dependency"
    /\ last.outcome = "ok"
    /\ OnTransitiveCycle(dependencies, last.task)
    /\ \A t \in DOMAIN tasks : tasks[t].status = "pending"


\* While the tasks of the cycle are all pending, the Task Manager refuses to
\* complete any of them.
C19_PendingCycleBlocks ==
    [][(/\ last'.op = "task_status_change"
        /\ last'.checked
        /\ OnTransitiveCycle(dependencies, last'.task)
        /\ \A t \in DOMAIN tasks :
              OnTransitiveCycle(dependencies, t) => tasks[t].status = "pending") =>
          (last'.outcome = "blocked" /\ tasks' = tasks)]_vars


\* ---- C20: the tasks of a run ----------------------------------------------

\* C20: after a run that fired, every task an ensure_task_link action
\* returned has a ShowDate on the date of the event; every task the run
\* created carries the id of the rule, has no parent, is pending and takes
\* its priority and category from an action of the rule; and a task that had
\* the ShowDate already gets no second row for it.
C20_RunTasksShowOnEventDate ==
    [][(last'.op = "add_calendar_event" /\ last'.ret) =>
          /\ \A i \in 1..Len(last'.created_task_ids) :
                LET id == last'.created_task_ids[i]
                IN  /\ <<id, last'.date>> \in show_dates'
                    /\ <<id, last'.date>> \in show_dates =>
                          {r \in show_dates' : r[1] = id} =
                              {r \in show_dates : r[1] = id}
          /\ \A t \in last'.new_task_ids :
                /\ tasks'[t].created_by_automation_id = last'.rule
                /\ tasks'[t].parent_task_id = NULL
                /\ tasks'[t].status = "pending"
                /\ \E j \in 1..Len(automations[last'.rule].actions) :
                      LET a == automations[last'.rule].actions[j]
                      IN  /\ IsTaskAction(a)
                          /\ tasks'[t].description = a.param1
                          /\ tasks'[t].priority = a.param2
                          /\ tasks'[t].category = a.param3]_vars

\* The run for an event has been repeated on the same date: it returned the
\* task the run before it had created, which shows on the date of the
\* event by one row.
C20_Witness ==
    /\ last.op = "add_calendar_event"
    /\ last.ret
    /\ last.repeat
    /\ last.created_task_ids # <<>>
    /\ last.new_task_ids = {}
    /\ \A i \in 1..Len(last.created_task_ids) :
          /\ <<last.created_task_ids[i], last.date>> \in show_dates
          /\ tasks[last.created_task_ids[i]].created_by_automation_id = last.rule


\* ---- C21: pending tasks carry no completion date --------------------------

\* C21: in every state a task whose status is pending has no date_completed.
C21_PendingHasNoCompletionDate ==
    \A t \in DOMAIN tasks :
        tasks[t].status = "pending" => tasks[t].date_completed = NULL

\* A task has been un-completed while another task is completed and dated.
C21_Witness ==
    /\ last.op = "task_status_change"
    /\ ~last.checked
    /\ last.outcome = "ok"
    /\ tasks[last.task].status = "pending"
    /\ tasks[last.task].date_completed = NULL
    /\ \E t \in DOMAIN tasks :
          tasks[t].status = "completed" /\ tasks[t].date_completed # NULL


\* ---- C22: un-completing a task --------------------------------------------

\* C22: un-completing a task always succeeds, whatever the state of its
\* sub-tasks, prerequisites, parent and dependents: the task becomes pending
\* with no date_completed, and no other task and nothing else in the store
\* changes.
C22_UncompleteAlwaysSucceeds ==
    [][(last'.op = "task_status_change" /\ ~last'.checked) =>
          /\ last'.outcome = "ok"
          /\ DOMAIN tasks' = DOMAIN tasks
          /\ \A t \in DOMAIN tasks :
                tasks'[t] =
                    IF t = last'.task
                    THEN [tasks[t] EXCEPT !.status = "pending",
                                          !.date_completed = NULL]
                    ELSE tasks[t]
          /\ UNCHANGED <<show_dates, completion_log, dependencies,
                         schedVars>>]_vars

\* A task that has a pending prerequisite has been un-completed.
C22_Witness ==
    /\ last.op = "task_status_change"
    /\ ~last.checked
    /\ last.outcome = "ok"
    /\ tasks[last.task].status = "pending"
    /\ \E e \in dependencies :
          /\ e[1] = last.task
          /\ e[2] \in DOMAIN tasks
          /\ tasks[e[2]].status = "pending"
\* ---- C23 ------------------------------------------------------------------
\* An action that _execute_automation_action skips for a missing parameter.
LacksParameter(a) ==
    \/ a.action_type = "ensure_task_link" /\ a.param1 = ""
    \/ /\ a.action_type = "create_schedule_block"
       /\ (a.param1 = "" \/ a.param2 = NULL \/ a.param3 = NULL)

\* C23: run_automations_for_event returns true exactly when an action of the
\* matched rule produced a task id or a schedule-event id; it returns false
\* for an empty title, when no rule matches, when the matched rule has no
\* actions, and when every action was skipped for a missing parameter.
C23_ReturnsTrueIffAnActionProducedAnId ==
    last.op = "add_calendar_event" =>
        /\ last.ret <=> (last.created_task_ids # <<>> \/ last.created_event_ids # <<>>)
        /\ last.title = <<>> => ~last.ret
        /\ last.rule = NULL => ~last.ret
        /\ (last.rule # NULL /\ automations[last.rule].actions = <<>>) => ~last.ret
        /\ (last.rule # NULL /\ \A i \in DOMAIN automations[last.rule].actions : LacksParameter(automations[last.rule].actions[i])) => ~last.ret

\* A run that returned true on the strength of a schedule block alone, its
\* only task action having been skipped for its empty description.
C23_Witness == last.op = "add_calendar_event" /\ last.ret /\ last.rule # NULL /\ last.created_task_ids = <<>> /\ last.created_event_ids # <<>> /\ \E i \in DOMAIN automations[last.rule].actions : LacksParameter(automations[last.rule].actions[i])

\* ---- C24 ------------------------------------------------------------------
\* C24: every stored schedule event has an end_time strictly greater than
\* its start_time, whether it was saved or edited in the schedule event
\* dialog or created by a run from a schedule action of the action dialog.
C24_EndAfterStart ==
    \A ev \in DOMAIN schedule_events :
        TextBefore(TimeText(schedule_events[ev].start_time), TimeText(schedule_events[ev].end_time))

\* A block made by a run next to a block saved in the dialog, the dialog
\* having just refused a form.
C24_Witness == last.op = "save_schedule_event" /\ last.outcome = "rejected" /\ \E a \in DOMAIN schedule_events, b \in DOMAIN schedule_events : schedule_events[a].color = "#6A1B9A" /\ schedule_events[b].color = "#3B8ED0"

\* ---- C26 ------------------------------------------------------------------
\* C26: every task that carries a schedule_event_id carries the id of a
\* stored schedule event, whatever runs, saves, links, unlinks and deletions
\* of schedule events have happened.
C26_LinksPointAtStoredEvents ==
    \A t \in DOMAIN tasks :
        tasks[t].schedule_event_id # NULL => tasks[t].schedule_event_id \in DOMAIN schedule_events

\* A block has just been deleted while a task is still linked to another
\* block.
C26_Witness == last.op = "delete_schedule_event" /\ last.unlinked # {} /\ \E t \in DOMAIN tasks : tasks[t].schedule_event_id # NULL

\* ---- C25 ------------------------------------------------------------------
\* C25: a save of an automation rule that fails leaves the rule store as it
\* was: the rule keeps its name, its trigger title and its whole action
\* list, and no rule is added.
C25_FailedSaveChangesNothing ==
    [][(last'.op = "save_rule" /\ last'.outcome # "ok") =>
          /\ DOMAIN automations' = DOMAIN automations
          /\ \A r \in DOMAIN automations :
                /\ automations'[r].rule_name = automations[r].rule_name
                /\ automations'[r].trigger_title = automations[r].trigger_title
                /\ automations'[r].actions = automations[r].actions]_vars

\* An edit has just been refused because its new trigger title is the title
\* of another rule; the edited rule still has its actions.
C25_Witness == last.op = "save_rule" /\ last.outcome = "rejected" /\ last.rule \in DOMAIN automations /\ automations[last.rule].trigger_title # last.title /\ automations[last.rule].actions # <<>> /\ \E r \in DOMAIN automations : r # last.rule /\ automations[r].trigger_title = last.title

\* ---- C27 ------------------------------------------------------------------
\* C27: whatever runs, completions and un-completions in the Task Manager
\* have happened, no two pending tasks carry the same created_by_automation_id
\* and the same description.
C27_OnePendingTaskPerRuleAndDescription ==
    \A t \in DOMAIN tasks, u \in DOMAIN tasks :
        (/\ tasks[t].created_by_automation_id # NULL
         /\ tasks[t].status = "pending" /\ tasks[u].status = "pending"
         /\ tasks[t].created_by_automation_id = tasks[u].created_by_automation_id
         /\ tasks[t].description = tasks[u].description) => t = u

\* A run has just made a second task for a description whose first task was
\* completed in the Task Manager.
C27_Witness == last.op = "add_calendar_event" /\ last.ret /\ \E t \in DOMAIN tasks, u \in last.new_task_ids : tasks[t].status = "completed" /\ tasks[u].status = "pending" /\ tasks[t].created_by_automation_id = tasks[u].created_by_automation_id /\ tasks[u].created_by_automation_id # NULL /\ tasks[t].description = tasks[u].description

\* ---- C28 ------------------------------------------------------------------
\* C28: for every schedule event and every notification window (15, 5 and 0
\* minutes before the start) at most one notification is shown per
\* application day, however many checks fall in the window.
C28_AtMostOneNotification ==
    \A k \in DOMAIN notifications : notifications[k] <= 1

\* ---- C29 ------------------------------------------------------------------
\* C29: when the countdown of a Work session ends, the count of completed
\* Work sessions grows by one and the long-break prompt is shown exactly when
\* the count is a multiple of sessions_before_long_break, the timer being
\* otherwise preset to the short break and left stopped; when the countdown
\* of a break ends the timer is preset to a full Work session and left
\* stopped; the remaining seconds never go below zero.
C29_CountdownEnds ==
    [][/\ timer_seconds' >= 0
       /\ (last'.op = "countdown" /\ timer_seconds = 0 /\ timer_mode = "Work") =>
             /\ pomodoro_cycles' = pomodoro_cycles + 1
             /\ last'.prompt <=> (pomodoro_cycles' % sessions_before_long_break = 0)
             /\ ~last'.prompt =>
                   /\ timer_mode' = "Break"
                   /\ timer_seconds' = short_break_minutes * 60
                   /\ ~pomodoro_running'
       /\ (last'.op = "countdown" /\ timer_seconds = 0 /\ timer_mode = "Break") =>
             /\ timer_mode' = "Work"
             /\ timer_seconds' = work_minutes * 60
             /\ ~pomodoro_running'
             /\ pomodoro_cycles' = pomodoro_cycles]_vars

\* The long-break prompt has just been shown after as many Work sessions as
\* the setting asks for, a short break having been taken before.
C29_Witness == last.op = "countdown" /\ last.prompt /\ pomodoro_cycles = sessions_before_long_break /\ break_cycles > 0

\* ---- C30 ------------------------------------------------------------------
\* C30: deleting an automation rule removes the rule with its actions and
\* nothing else: every other rule, every task, show date, completion and
\* schedule event stays as it was, and the tasks the rule made still carry
\* its id and are still recurring for the Today dashboard.
C30_DeleteRuleKeepsTasks ==
    [][last'.op = "delete_rule" =>
          /\ DOMAIN automations' = (DOMAIN automations) \ {last'.rule}
          /\ \A r \in DOMAIN automations' : automations'[r] = automations[r]
          /\ UNCHANGED <<tasks, show_dates, completion_log, dependencies, schedule_events>>
          /\ \A t \in DOMAIN tasks :
                tasks[t].created_by_automation_id = last'.rule =>
                    /\ t \in DOMAIN tasks'
                    /\ tasks'[t].created_by_automation_id = last'.rule
                    /\ IsRecurring(tasks', show_dates', t)]_vars

\* A rule has just been deleted that had made a task and a schedule block,
\* while another rule is still stored.
C30_Witness == last.op = "delete_rule" /\ last.rule \notin DOMAIN automations /\ automations # <<>> /\ schedule_events # <<>> /\ \E t \in DOMAIN tasks : tasks[t].created_by_automation_id = last.rule
====
